---- MODULE Spec2Model ----
(***************************************************************************)
(* NexVault: the on-chain access registry (contract NexVault), the RPC     *)
(* resilience layer (retryWithBackoff / rotateRpcEndpoint) and the access  *)
(* resolution engine (getAccessibleFileHashes), as state machines.         *)
(***************************************************************************)
EXTENDS Integers, Sequences, FiniteSets, TLC

(***************************************************************************)
(* Universes of values.                                                    *)
(***************************************************************************)
\* address(0): never a msg.sender, but a possible grantee / revokee argument.
ZeroAddress == "0x0"
\* Externally owned accounts that send transactions (owner, addr1, addr2).
Principals == {"0xa1", "0xb2", "0xc3"}
Addresses == Principals \cup {ZeroAddress}
\* bytes32 file hashes.
FileHashes == {"h1", "h2", "h3"}
\* The hashes the transactions of Spec name; h3 stays unregistered there.
TxFileHashes == {"h1", "h2"}
\* S3 object keys; "" is the empty string rejected by addFile.
S3Keys == {"", "k1", "k2"}

\* Largest number of events (successful transactions) kept in the log.
MaxLog == 3

VARIABLES
  files,            \* mapping(bytes32 => FileInfo) private files
  log,              \* the contract's event log, oldest first
  lastCall,         \* the most recent external call and how it ended
  INFURA_URL,       \* the configured primary endpoint ("" when not set)
  currentRpcIndex,  \* let currentRpcIndex
  provider,         \* let provider: the endpoint it is bound to
  signer,           \* let signer: the endpoint its provider is bound to
  contract,         \* let contract: the endpoint its signer is bound to
  retry,            \* the running retryWithBackoff call
  tip,              \* the height of the latest block
  build,            \* which version of utils/blockchain.js is deployed
  now,              \* Date.now(), in milliseconds
  accessibleFilesCache,  \* const accessibleFilesCache = new Map()
  resolve,          \* the running getAccessibleFileHashes call
  sibling,          \* a second getAccessibleFileHashes call running beside it
  prev,             \* the getAccessibleFileHashes call that settled last
  download,         \* the running downloadFile request
  upload,           \* the running uploadFile request
  decrypt,          \* the running downloadAndDecrypt request
  bucket            \* the objects of the S3 bucket, by key

registryVars == <<files, log, lastCall, tip>>
rpcVars == <<INFURA_URL, currentRpcIndex, provider, signer, contract>>
engineVars == <<build, now, accessibleFilesCache, resolve, sibling, prev>>
appVars == <<download, upload, decrypt, bucket>>
vars == <<files, log, lastCall, tip, INFURA_URL, currentRpcIndex, provider, signer,
          contract, retry,
          build, now, accessibleFilesCache, resolve, sibling, prev,
          download, upload, decrypt, bucket>>

(***************************************************************************)
(* contract NexVault                                                       *)
(***************************************************************************)
\* A storage slot never written: address(0), "", false, empty mapping.
FileInfo == [owner |-> ZeroAddress, s3Key |-> "", exists |-> FALSE, access |-> {}]

FileAdded(fileHash, owner, s3Key, blk) ==
  [type |-> "FileAdded", fileHash |-> fileHash, who |-> owner, s3Key |-> s3Key, block |-> blk]

AccessGranted(fileHash, grantee, blk) ==
  [type |-> "AccessGranted", fileHash |-> fileHash, who |-> grantee, s3Key |-> "", block |-> blk]

AccessRevoked(fileHash, revokee, blk) ==
  [type |-> "AccessRevoked", fileHash |-> fileHash, who |-> revokee, s3Key |-> "", block |-> blk]

\* A failed require: the transaction reverts, storage is as before, no event.
Revert(fs, reason) == [err |-> reason, files |-> fs, events |-> <<>>]

\* addFile as it would be if the owner could register the same hash again.
addFileOwnerMayReRegister(fs, sender, fileHash, s3Key, blk) ==
  IF fs[fileHash].exists /\ sender # fs[fileHash].owner
    THEN Revert(fs, "File already exists")
  ELSE IF ~(Len(s3Key) > 0) THEN Revert(fs, "S3 key cannot be empty")
  ELSE [err |-> "",
        files |-> [fs EXCEPT ![fileHash] =
                     [owner |-> sender, s3Key |-> s3Key, exists |-> TRUE,
                      access |-> @.access \cup {sender}]],
        events |-> <<FileAdded(fileHash, sender, s3Key, blk)>>]

\* addFile as it would be without its first require.
addFileNoDuplicateCheck(fs, sender, fileHash, s3Key, blk) ==
  IF ~(Len(s3Key) > 0) THEN Revert(fs, "S3 key cannot be empty")
  ELSE [err |-> "",
        files |-> [fs EXCEPT ![fileHash] =
                     [owner |-> sender, s3Key |-> s3Key, exists |-> TRUE,
                      access |-> @.access \cup {sender}]],
        events |-> <<FileAdded(fileHash, sender, s3Key, blk)>>]

\* addFile as it would be without its second require.
addFileAcceptsEmptyKey(fs, sender, fileHash, s3Key, blk) ==
  IF fs[fileHash].exists THEN Revert(fs, "File already exists")
  ELSE [err |-> "",
        files |-> [fs EXCEPT ![fileHash] =
                     [owner |-> sender, s3Key |-> s3Key, exists |-> TRUE,
                      access |-> @.access \cup {sender}]],
        events |-> <<FileAdded(fileHash, sender, s3Key, blk)>>]

\* addFile as it would be without files[fileHash].access[msg.sender] = true.
addFileOwnerNotListed(fs, sender, fileHash, s3Key, blk) ==
  IF fs[fileHash].exists THEN Revert(fs, "File already exists")
  ELSE IF ~(Len(s3Key) > 0) THEN Revert(fs, "S3 key cannot be empty")
  ELSE [err |-> "",
        files |-> [fs EXCEPT ![fileHash] =
                     [owner |-> sender, s3Key |-> s3Key, exists |-> TRUE,
                      access |-> @.access]],
        events |-> <<FileAdded(fileHash, sender, s3Key, blk)>>]

addFile(fs, sender, fileHash, s3Key, blk) ==
  IF fs[fileHash].exists THEN Revert(fs, "File already exists")
  ELSE IF ~(Len(s3Key) > 0) THEN Revert(fs, "S3 key cannot be empty")
  ELSE [err |-> "",
        files |-> [fs EXCEPT ![fileHash] =
                     [owner |-> sender, s3Key |-> s3Key, exists |-> TRUE,
                      access |-> @.access \cup {sender}]],
        events |-> <<FileAdded(fileHash, sender, s3Key, blk)>>]

\* grantAccess as it would be without the owner check.
grantAccessByAnyone(fs, sender, fileHash, grantee, blk) ==
  IF ~fs[fileHash].exists THEN Revert(fs, "File not found")
  ELSE IF grantee = ZeroAddress
    THEN Revert(fs, "Cannot grant access to zero address")
  ELSE [err |-> "",
        files |-> [fs EXCEPT ![fileHash].access = @ \cup {grantee}],
        events |-> <<AccessGranted(fileHash, grantee, blk)>>]

\* grantAccess as it would be if a repeated grant were an error.
grantAccessRejectsRepeat(fs, sender, fileHash, grantee, blk) ==
  IF ~fs[fileHash].exists THEN Revert(fs, "File not found")
  ELSE IF sender # fs[fileHash].owner
    THEN Revert(fs, "Not authorized: only owner can grant access")
  ELSE IF grantee = ZeroAddress
    THEN Revert(fs, "Cannot grant access to zero address")
  ELSE IF grantee \in fs[fileHash].access
    THEN Revert(fs, "Access already granted")
  ELSE [err |-> "",
        files |-> [fs EXCEPT ![fileHash].access = @ \cup {grantee}],
        events |-> <<AccessGranted(fileHash, grantee, blk)>>]

\* grantAccess as it would be without its third require.
grantAccessToZeroAddress(fs, sender, fileHash, grantee, blk) ==
  IF ~fs[fileHash].exists THEN Revert(fs, "File not found")
  ELSE IF sender # fs[fileHash].owner
    THEN Revert(fs, "Not authorized: only owner can grant access")
  ELSE [err |-> "",
        files |-> [fs EXCEPT ![fileHash].access = @ \cup {grantee}],
        events |-> <<AccessGranted(fileHash, grantee, blk)>>]

grantAccess(fs, sender, fileHash, grantee, blk) ==
  IF ~fs[fileHash].exists THEN Revert(fs, "File not found")
  ELSE IF sender # fs[fileHash].owner
    THEN Revert(fs, "Not authorized: only owner can grant access")
  ELSE IF grantee = ZeroAddress
    THEN Revert(fs, "Cannot grant access to zero address")
  ELSE [err |-> "",
        files |-> [fs EXCEPT ![fileHash].access = @ \cup {grantee}],
        events |-> <<AccessGranted(fileHash, grantee, blk)>>]

\* revokeAccess as it would be writing true instead of false.
revokeAccessWritesTrue(fs, sender, fileHash, revokee, blk) ==
  IF ~fs[fileHash].exists THEN Revert(fs, "File not found")
  ELSE IF sender # fs[fileHash].owner
    THEN Revert(fs, "Not authorized: only owner can revoke access")
  ELSE IF revokee = fs[fileHash].owner
    THEN Revert(fs, "Cannot revoke owner's access")
  ELSE [err |-> "",
        files |-> [fs EXCEPT ![fileHash].access = @ \cup {revokee}],
        events |-> <<AccessRevoked(fileHash, revokee, blk)>>]

\* revokeAccess as it would be without its third require.
revokeAccessNoOwnerGuard(fs, sender, fileHash, revokee, blk) ==
  IF ~fs[fileHash].exists THEN Revert(fs, "File not found")
  ELSE IF sender # fs[fileHash].owner
    THEN Revert(fs, "Not authorized: only owner can revoke access")
  ELSE [err |-> "",
        files |-> [fs EXCEPT ![fileHash].access = @ \ {revokee}],
        events |-> <<AccessRevoked(fileHash, revokee, blk)>>]

\* revokeAccess as it would be resetting the whole access list to the owner.
revokeAccessClearsList(fs, sender, fileHash, revokee, blk) ==
  IF ~fs[fileHash].exists THEN Revert(fs, "File not found")
  ELSE IF sender # fs[fileHash].owner
    THEN Revert(fs, "Not authorized: only owner can revoke access")
  ELSE IF revokee = fs[fileHash].owner
    THEN Revert(fs, "Cannot revoke owner's access")
  ELSE [err |-> "",
        files |-> [fs EXCEPT ![fileHash].access = {fs[fileHash].owner}],
        events |-> <<AccessRevoked(fileHash, revokee, blk)>>]

\* revokeAccess as it would be without its emit.
revokeAccessEmitsNothing(fs, sender, fileHash, revokee, blk) ==
  IF ~fs[fileHash].exists THEN Revert(fs, "File not found")
  ELSE IF sender # fs[fileHash].owner
    THEN Revert(fs, "Not authorized: only owner can revoke access")
  ELSE IF revokee = fs[fileHash].owner
    THEN Revert(fs, "Cannot revoke owner's access")
  ELSE [err |-> "",
        files |-> [fs EXCEPT ![fileHash].access = @ \ {revokee}],
        events |-> <<>>]

revokeAccess(fs, sender, fileHash, revokee, blk) ==
  IF ~fs[fileHash].exists THEN Revert(fs, "File not found")
  ELSE IF sender # fs[fileHash].owner
    THEN Revert(fs, "Not authorized: only owner can revoke access")
  ELSE IF revokee = fs[fileHash].owner
    THEN Revert(fs, "Cannot revoke owner's access")
  ELSE [err |-> "",
        files |-> [fs EXCEPT ![fileHash].access = @ \ {revokee}],
        events |-> <<AccessRevoked(fileHash, revokee, blk)>>]

\* View functions: err is the revert reason ("" when the call returns).
hasAccess(fs, fileHash, who) ==
  IF ~fs[fileHash].exists THEN [err |-> "", value |-> FALSE]
  ELSE [err |-> "", value |-> who \in fs[fileHash].access]

\* getS3Key as it would be without its require.
getS3KeyOfAnyHash(fs, fileHash) == [err |-> "", value |-> fs[fileHash].s3Key]

getS3Key(fs, fileHash) ==
  IF ~fs[fileHash].exists THEN [err |-> "File not found", value |-> ""]
  ELSE [err |-> "", value |-> fs[fileHash].s3Key]

getOwner(fs, fileHash) ==
  IF ~fs[fileHash].exists THEN [err |-> "File not found", value |-> ZeroAddress]
  ELSE [err |-> "", value |-> fs[fileHash].owner]

fileExists(fs, fileHash) == fs[fileHash].exists

\* lastCall: the function called last and its revert reason ("" on success).
NoCall == [op |-> "none", err |-> ""]

\* The registry after deployment.
Deployed ==
  /\ files = [h \in FileHashes |-> FileInfo]
  /\ log = <<>>
  /\ lastCall = NoCall
  /\ tip = 0

(***************************************************************************)
(* Access resolution engine: utils/blockchain.js, module state             *)
(***************************************************************************)
\* Addresses as callers write them; toLowerCase folds the letter case.
AddressInputs == {"0xa1", "0xA1", "0xb2"}
toLowerCase(str) ==
  CASE str = "0xA1" -> "0xa1"
    [] str = "0xB2" -> "0xb2"
    [] str = "0xC3" -> "0xc3"
    [] OTHER -> str

CACHE_TTL == 5 * 60 * 1000

\* The value of a variable nothing was assigned to.
Undefined == "undefined"

\* A key the Map has no entry for.
Absent == [present |-> FALSE, hashes |-> {}, timestamp |-> 0]
CacheKeys == {toLowerCase(a) : a \in AddressInputs}

Idle ==
  [pc |-> "idle", calls |-> 0, version |-> "none", address |-> "", latestBlock |-> 0,
   fromBlock |-> 0, retryCount |-> 0, accessibleHashes |-> {},
   ledgerCalls |-> 0, scanned |-> FALSE, startedAt |-> 0, finishedAt |-> 0, result |-> {},
   entryTimestamp |-> -1, contract |-> Undefined, client |-> Undefined,
   succeeded |-> {}]

\* The version with the cache and per-chunk retries, and the earlier one
\* that re-verifies every candidate.
Builds == {"cached", "verifying"}

EngineIdle ==
  /\ now = 0
  /\ accessibleFilesCache = [k \in CacheKeys |-> Absent]
  /\ resolve = Idle
  /\ sibling = Idle
  /\ prev = Idle

(***************************************************************************)
(* Controllers: no request is running and the bucket is empty.             *)
(***************************************************************************)
\* req.user when no middleware has set it.
Null == "null"

NoDownload ==
  [pc |-> "idle", key |-> "", user |-> Null, fileHash |-> "", fileOwner |-> "",
   walletAddresses |-> <<>>, checks |-> <<>>, lookupThrew |-> FALSE,
   allow |-> "none", status |-> 0, downloadUrl |-> ""]

NoBuffer == <<>>
NoBytes == [length |-> 0, id |-> 0]
NoTag == [mac |-> <<>>, length |-> 0, flippedAt |-> 0]

NoUpload ==
  [pc |-> "idle", buffer |-> NoBuffer, aesKey |-> NoBytes, iv |-> NoBytes,
   ciphertext |-> NoBuffer, authTag |-> NoTag, fileHash |-> [sha256 |-> NoBuffer],
   uniqueKey |-> "", txHash |-> Null, status |-> 0]

NoDecrypt ==
  [pc |-> "idle", key |-> "", aesKey |-> NoBytes, iv |-> NoBytes, authTag |-> NoTag,
   encryptedBuffer |-> NoBuffer, status |-> 0, sent |-> FALSE, body |-> NoBuffer]

S3ObjectKeys == {"k1", "k2", "k3"}
NoObject == [exists |-> FALSE, body |-> NoBuffer]

AppIdle ==
  /\ download = NoDownload
  /\ upload = NoUpload
  /\ decrypt = NoDecrypt
  /\ bucket = [k \in S3ObjectKeys |-> NoObject]

(***************************************************************************)
(* RPC resilience layer: config/blockchain.js                              *)
(***************************************************************************)
\* [...].filter(Boolean): the configured endpoint, when set, then the four
\* public ones.
SEPOLIA_RPC_ENDPOINTS(infura) ==
  SelectSeq(<<infura,
              "https://rpc.sepolia.org",
              "https://rpc2.sepolia.org",
              "https://ethereum-sepolia-rpc.publicnode.com",
              "https://1rpc.io/sepolia">>,
            LAMBDA url : url # "")

createProvider(endpoints, index) ==
  endpoints[(index % Len(endpoints)) + 1]

\* rotateRpcEndpoint as it would be advancing the pointer by two.
rotateRpcEndpointSkipsOne(endpoints, index) ==
  LET next == (index + 2) % Len(endpoints)
  IN  [currentRpcIndex |-> next,
       provider |-> createProvider(endpoints, next),
       signer |-> createProvider(endpoints, next),
       contract |-> createProvider(endpoints, next)]

\* rotateRpcEndpoint as it would be without the modulo.
rotateRpcEndpointNoModulo(endpoints, index) ==
  LET next == index + 1
  IN  [currentRpcIndex |-> next,
       provider |-> createProvider(endpoints, next),
       signer |-> createProvider(endpoints, next),
       contract |-> createProvider(endpoints, next)]

\* rotateRpcEndpoint as it would be without rebuilding the contract.
rotateRpcEndpointKeepsContract(endpoints, index) ==
  LET next == (index + 1) % Len(endpoints)
  IN  [currentRpcIndex |-> next,
       provider |-> createProvider(endpoints, next),
       signer |-> createProvider(endpoints, next),
       contract |-> createProvider(endpoints, index)]

\* The new pointer and the endpoint provider, signer and contract are rebuilt on.
rotateRpcEndpoint(endpoints, index) ==
  LET next == (index + 1) % Len(endpoints)
  IN  [currentRpcIndex |-> next,
       provider |-> createProvider(endpoints, next),
       signer |-> createProvider(endpoints, next),
       contract |-> createProvider(endpoints, next)]

\* The value sleep() is called with before the retry that follows `attempt`.
backoffDelay(baseDelay, attempt) == baseDelay * 2 ^ (attempt - 1)

\* Errors a wrapped call rejects with: the phrases its message contains
\* (none when the error has no message: message?.includes is then falsy)
\* and its code (Undefined when it has none).
Error(phrases, code) == [message |-> phrases, code |-> code]
Includes(message, phrase) == phrase \in message

TooManyRequests == Error({"Too Many Requests"}, Undefined)
Status429 == Error({"429"}, "SERVER_ERROR")
RangeTooLarge == Error({"exceed maximum block range"}, "-32000")
LimitExceeded == Error({}, "-32005")
QueryTimeout == Error({"timeout"}, "TIMEOUT")
BadData == Error({"could not decode result data"}, "BAD_DATA")
ExecutionReverted == Error({"execution reverted", "File already exists"}, "CALL_EXCEPTION")

\* retryWithBackoff as it would be retrying whatever the error is.
isRateLimitErrorAlways(error) == TRUE

isRateLimitError(error) ==
  \/ Includes(error.message, "Too Many Requests")
  \/ Includes(error.message, "429")
  \/ Includes(error.message, "exceed maximum block range")
  \/ Includes(error.message, "limited to")
  \/ error.code = "-32005"
  \/ error.code = "-32701"
  \/ error.code = "-32602"
  \/ error.code = "BAD_DATA"

isLastAttempt(attempt, maxRetries) == attempt = maxRetries

\* What the wrapped call can do on one invocation in SpecRetry.
FnErrors ==
  {TooManyRequests, RangeTooLarge, LimitExceeded, BadData, QueryTimeout,
   ExecutionReverted}
NoError == Error({}, Undefined)
\* One invocation's outcome: resolved, or rejected with an error.
Ok == [ok |-> TRUE, error |-> NoError]
Rejected(error) == [ok |-> FALSE, error |-> error]
\* What retryWithBackoff hands its caller: the value the k-th invocation
\* of the wrapped call resolved to, or the error it rethrows.
Value(k) == [value |-> k, error |-> NoError]
Thrown(error) == [value |-> 0, error |-> error]
NoResult == [value |-> 0, error |-> NoError]

\* retryWithBackoff(fn, maxRetries = 5, baseDelay = 1000)
DefaultMaxRetries == 5
BaseDelays == {1000, 2000}

NoRetry ==
  [pc |-> "idle", maxRetries |-> 0, baseDelay |-> 0, attempt |-> 0,
   outcomes |-> <<>>, delays |-> <<>>, rotations |-> 0, startIndex |-> 0,
   contract |-> Undefined, clients |-> <<>>, result |-> NoResult,
   fileHash |-> "", s3Key |-> "", txs |-> <<>>]

\* initializeBlockchain, all of its settings present: provider, signer and
\* contract are built on the first endpoint.
Initialized ==
  /\ currentRpcIndex = 0
  /\ provider = createProvider(SEPOLIA_RPC_ENDPOINTS(INFURA_URL), 0)
  /\ signer = provider
  /\ contract = signer

\* A caller (addFileRecord, grantFileAccess, revokeFileAccess) has taken
\* const contract = getContract() and enters retryWithBackoff with an fn
\* that calls that contract: attempt = 1 and fn() is invoked.
RetryCall ==
  /\ retry.pc = "idle"
  /\ \E maxRetries \in 1..DefaultMaxRetries, baseDelay \in BaseDelays :
       retry' = [NoRetry EXCEPT !.pc = "calling", !.maxRetries = maxRetries,
                                !.baseDelay = baseDelay, !.attempt = 1,
                                !.startIndex = currentRpcIndex,
                                !.contract = contract]
  /\ UNCHANGED <<appVars, registryVars, rpcVars, engineVars>>

\* await fn() resolves: return its value.
FnResolves ==
  /\ retry.pc = "calling"
  /\ retry' = [retry EXCEPT !.pc = "returned",
                            !.outcomes = Append(@, Ok),
                            !.clients = Append(@, retry.contract),
                            !.result = Value(Len(retry.outcomes) + 1)]
  /\ UNCHANGED <<appVars, registryVars, rpcVars, engineVars>>

\* await fn() rejects: back off when the error is a rate-limit / block-range
\* error and attempts remain, else rethrow it.
FnRejects ==
  /\ retry.pc = "calling"
  /\ \E error \in FnErrors :
       IF isRateLimitError(error) /\ ~isLastAttempt(retry.attempt, retry.maxRetries)
         THEN retry' = [retry EXCEPT
                          !.pc = "sleeping",
                          !.outcomes = Append(@, Rejected(error)),
                          !.clients = Append(@, retry.contract),
                          !.delays = Append(@, backoffDelay(retry.baseDelay, retry.attempt))]
         ELSE retry' = [retry EXCEPT !.pc = "threw",
                                     !.outcomes = Append(@, Rejected(error)),
                                     !.clients = Append(@, retry.contract),
                                     !.result = Thrown(error)]
  /\ UNCHANGED <<appVars, registryVars, rpcVars, engineVars>>

\* await sleep(delay) is over: rotate the endpoint, then the next attempt
\* invokes fn() again.
BackoffOver ==
  /\ retry.pc = "sleeping"
  /\ LET r == rotateRpcEndpoint(SEPOLIA_RPC_ENDPOINTS(INFURA_URL), currentRpcIndex)
     IN  /\ currentRpcIndex' = r.currentRpcIndex
         /\ provider' = r.provider
         /\ signer' = r.signer
         /\ contract' = r.contract
  /\ retry' = [retry EXCEPT !.pc = "calling", !.attempt = @ + 1, !.rotations = @ + 1]
  /\ UNCHANGED <<appVars, registryVars, INFURA_URL, engineVars>>

\* The caller has the value or the error; the next call may start.
RetryDone ==
  /\ retry.pc \in {"returned", "threw"}
  /\ retry' = NoRetry
  /\ UNCHANGED <<appVars, registryVars, rpcVars, engineVars>>

InitRetry ==
  /\ Deployed
  /\ INFURA_URL \in {"", "https://sepolia.infura.io"}
  /\ Initialized
  /\ retry = NoRetry
  /\ build = "cached"
  /\ EngineIdle
  /\ AppIdle

NextRetry ==
  \/ RetryCall
  \/ FnResolves
  \/ FnRejects
  \/ BackoffOver
  \/ RetryDone

SpecRetry == InitRetry /\ [][NextRetry]_vars

(***************************************************************************)
(* Transactions against the registry.  Each successful transaction is      *)
(* mined in the next block and appends its event to the log.               *)
(***************************************************************************)
NextBlock == tip + 1

Commit(r, op) ==
  /\ r.err = "" => Len(log) < MaxLog
  /\ files' = r.files
  /\ log' = log \o r.events
  /\ lastCall' = [op |-> op, err |-> r.err]
  /\ tip' = IF r.err = "" THEN NextBlock ELSE tip
  /\ UNCHANGED <<appVars, rpcVars, retry, engineVars>>

AddFileTx ==
  \E sender \in Principals, fileHash \in TxFileHashes, s3Key \in S3Keys :
    Commit(addFile(files, sender, fileHash, s3Key, NextBlock), "addFile")

GrantAccessTx ==
  \E sender \in Principals, fileHash \in TxFileHashes, grantee \in Addresses :
    Commit(grantAccess(files, sender, fileHash, grantee, NextBlock), "grantAccess")

RevokeAccessTx ==
  \E sender \in Principals, fileHash \in TxFileHashes, revokee \in Addresses :
    Commit(revokeAccess(files, sender, fileHash, revokee, NextBlock), "revokeAccess")

Init ==
  /\ Deployed
  /\ INFURA_URL = "https://sepolia.infura.io"
  /\ Initialized
  /\ retry = NoRetry
  /\ build = "cached"
  /\ EngineIdle
  /\ AppIdle

Next ==
  \/ AddFileTx
  \/ GrantAccessTx
  \/ RevokeAccessTx

Spec == Init /\ [][Next]_vars

(***************************************************************************)
(* Ledgers the engine reads: transactions replayed through the contract.   *)
(***************************************************************************)
Tx(op, sender, fileHash, s3Key, who, blk) ==
  [op |-> op, sender |-> sender, fileHash |-> fileHash, s3Key |-> s3Key,
   who |-> who, block |-> blk]

Apply(fs, t) ==
  CASE t.op = "addFile" -> addFile(fs, t.sender, t.fileHash, t.s3Key, t.block)
    [] t.op = "grantAccess" -> grantAccess(fs, t.sender, t.fileHash, t.who, t.block)
    [] t.op = "revokeAccess" -> revokeAccess(fs, t.sender, t.fileHash, t.who, t.block)

RECURSIVE Replay(_, _)
Replay(st, txs) ==
  IF txs = <<>> THEN st
  ELSE LET r == Apply(st.files, Head(txs))
       IN  Replay([files |-> r.files, log |-> st.log \o r.events], Tail(txs))

\* 0xc3 registers h1, h2, h3 and grants all three to 0xa1, then revokes h2;
\* every event lies in the scan window of either version.
GrantedThenRevoked ==
  [tip |-> 25000,
   txs |-> <<Tx("addFile", "0xc3", "h1", "k1", ZeroAddress, 1),
             Tx("addFile", "0xc3", "h2", "k2", ZeroAddress, 2),
             Tx("addFile", "0xc3", "h3", "k1", ZeroAddress, 3),
             Tx("grantAccess", "0xc3", "h1", "", "0xa1", 5000),
             Tx("grantAccess", "0xc3", "h2", "", "0xa1", 12000),
             Tx("grantAccess", "0xc3", "h3", "", "0xa1", 24999),
             Tx("revokeAccess", "0xc3", "h2", "", "0xa1", 25000)>>]

\* 0xa1 registered h1 long ago; 0xb2 registered h2 recently and grants it
\* to 0xa1 in the latest block.
OldRegistration ==
  [tip |-> 60000,
   txs |-> <<Tx("addFile", "0xa1", "h1", "k1", ZeroAddress, 5),
             Tx("addFile", "0xb2", "h2", "k2", ZeroAddress, 20000),
             Tx("grantAccess", "0xb2", "h2", "", "0xa1", 60000)>>]

\* A young chain: 0xa1 owns h1; h2 of 0xb2 was granted to 0xa1, revoked and
\* granted again.
YoungChain ==
  [tip |-> 7,
   txs |-> <<Tx("addFile", "0xa1", "h1", "k1", ZeroAddress, 1),
             Tx("addFile", "0xb2", "h2", "k2", ZeroAddress, 2),
             Tx("grantAccess", "0xb2", "h2", "", "0xa1", 3),
             Tx("revokeAccess", "0xb2", "h2", "", "0xa1", 5),
             Tx("grantAccess", "0xb2", "h2", "", "0xa1", 6)>>]

Scenarios == {GrantedThenRevoked, OldRegistration, YoungChain}

Ledger(scenario) ==
  Replay([files |-> [h \in FileHashes |-> FileInfo], log |-> <<>>], scenario.txs)

(***************************************************************************)
(* Access resolution engine: getAccessibleFileHashes                       *)
(***************************************************************************)
\* Most clock advances of one run, each by 1 ms or by CACHE_TTL - 1 ms.
MaxTicks == 2
\* Most calls of getAccessibleFileHashes in one run.
MaxCalls == 2
TickSteps == {1, CACHE_TTL - 1}
TickCount(clock) == (clock \div (CACHE_TTL - 1)) + (clock % (CACHE_TTL - 1))

\* utils/blockchain.js, the version with the cache and per-chunk retries.
CHUNK_SIZE == 50000
SCAN_WINDOW == 50000
MAX_RETRIES == 3
\* The earlier version that re-verifies every candidate.
VERIFYING_CHUNK_SIZE == 10000
VERIFYING_SCAN_WINDOW == 100000

Max(a, b) == IF a >= b THEN a ELSE b
Min(a, b) == IF a <= b THEN a ELSE b

\* queryFilter as it would be without the lower end of the block range.
queryFilterFromGenesis(lg, type, address, fromBlock, toBlock) ==
  {toLowerCase(lg[i].fileHash) :
     i \in {j \in DOMAIN lg : /\ lg[j].type = type
                              /\ lg[j].who = toLowerCase(address)
                              /\ lg[j].block <= toBlock}}

\* contract.queryFilter(contract.filters.<type>(null, address), fromBlock,
\* toBlock), each event mapped to event.args.fileHash.toLowerCase().
queryFilter(lg, type, address, fromBlock, toBlock) ==
  {toLowerCase(lg[i].fileHash) :
     i \in {j \in DOMAIN lg : /\ lg[j].type = type
                              /\ lg[j].who = toLowerCase(address)
                              /\ fromBlock <= lg[j].block
                              /\ lg[j].block <= toBlock}}

\* cached && (Date.now() - cached.timestamp) < CACHE_TTL
cacheHit(cached, clock) ==
  cached.present /\ (clock - cached.timestamp) < CACHE_TTL

\* hasFileAccess(hash, address): the contract's answer, or the error it
\* rethrows when the RPC call fails.
hasFileAccess(fs, fileHash, address, rpcOk) ==
  IF rpcOk THEN hasAccess(fs, fileHash, toLowerCase(address))
  ELSE [err |-> "Failed to check file access", value |-> FALSE]

Returned(call, hashes, clock) ==
  [call EXCEPT !.pc = "returned", !.result = hashes, !.finishedAt = clock]

Threw(call, clock) ==
  [call EXCEPT !.pc = "threw", !.result = {}, !.finishedAt = clock]

\* The clock advances while the engine is idle or awaits the tip height.
Tick ==
  /\ resolve.pc \in {"idle", "getBlockNumber"}
  /\ TickCount(now) < MaxTicks
  /\ \E d \in TickSteps : now' = now + d
  /\ UNCHANGED <<appVars, registryVars, rpcVars, retry, sibling, build, accessibleFilesCache, resolve, prev>>

\* setInterval(clearExpiredCache, 60 * 1000)
clearExpiredCache ==
  /\ \E k \in CacheKeys :
       /\ accessibleFilesCache[k].present
       /\ now - accessibleFilesCache[k].timestamp > CACHE_TTL
  /\ accessibleFilesCache' =
       [k \in CacheKeys |->
          IF /\ accessibleFilesCache[k].present
             /\ now - accessibleFilesCache[k].timestamp > CACHE_TTL
            THEN Absent ELSE accessibleFilesCache[k]]
  /\ UNCHANGED <<appVars, registryVars, rpcVars, retry, sibling, build, now, resolve, prev>>

\* getAccessibleFileHashes(address) up to its first await: a fresh cache
\* entry is returned at once; with no contract or provider the thrown error
\* is caught and [] returned; else the tip height is requested.
getAccessibleFileHashes ==
  /\ build = "cached"
  /\ resolve.pc = "idle"
  /\ prev.calls < MaxCalls
  /\ \E address \in AddressInputs :
       LET cacheKey == toLowerCase(address)
           cached == accessibleFilesCache[cacheKey]
           call == [Idle EXCEPT !.version = "cached", !.address = address,
                                !.startedAt = now, !.calls = prev.calls + 1]
       IN  resolve' =
             IF cacheHit(cached, now)
               THEN Returned([call EXCEPT !.entryTimestamp = cached.timestamp],
                             cached.hashes, now)
             ELSE IF contract = Undefined \/ provider = Undefined
               THEN Returned(call, {}, now)
             ELSE [call EXCEPT !.pc = "getBlockNumber", !.contract = contract]
  /\ UNCHANGED <<appVars, registryVars, rpcVars, retry, sibling, build, now, accessibleFilesCache, prev>>

\* The earlier getAccessibleFileHashes(address): no cache; an uninitialized
\* contract or provider is an error for the caller.
getAccessibleFileHashesVerifying ==
  /\ build = "verifying"
  /\ resolve.pc = "idle"
  /\ prev.calls < MaxCalls
  /\ \E address \in AddressInputs :
       LET call == [Idle EXCEPT !.version = "verifying", !.address = address,
                                !.startedAt = now, !.calls = prev.calls + 1]
       IN  resolve' = IF contract = Undefined \/ provider = Undefined
                        THEN Threw(call, now)
                      ELSE [call EXCEPT !.pc = "getBlockNumber", !.contract = contract]
  /\ UNCHANGED <<appVars, registryVars, rpcVars, retry, sibling, build, now, accessibleFilesCache, prev>>

\* provider.getBlockNumber() resolves: the scan starts at START_BLOCK.
getBlockNumberResolves ==
  /\ resolve.pc = "getBlockNumber"
  /\ resolve' =
       [resolve EXCEPT
          !.ledgerCalls = @ + 1,
          !.latestBlock = tip,
          !.fromBlock = IF resolve.version \in {"cached", "earlier"}
                          THEN Max(0, tip - SCAN_WINDOW)
                          ELSE Max(0, tip - VERIFYING_SCAN_WINDOW),
          !.pc = IF resolve.version \in {"cached", "earlier"}
                   THEN "queryFilter" ELSE "grantedQuery"]
  /\ UNCHANGED <<appVars, registryVars, rpcVars, retry, sibling, build, now, accessibleFilesCache, prev>>

\* getBlockNumberRejects as it would be storing the empty result it returns.
getBlockNumberRejectsCaches ==
  /\ resolve.pc = "getBlockNumber"
  /\ resolve' =
       IF resolve.version = "cached"
         THEN Returned([resolve EXCEPT !.ledgerCalls = @ + 1], {}, now)
         ELSE Threw([resolve EXCEPT !.ledgerCalls = @ + 1], now)
  /\ accessibleFilesCache' =
       [accessibleFilesCache EXCEPT ![toLowerCase(resolve.address)] =
          [present |-> TRUE, hashes |-> {}, timestamp |-> now]]
  /\ UNCHANGED <<appVars, registryVars, rpcVars, retry, sibling, build, now, prev>>

\* provider.getBlockNumber() rejects or times out: the outer catch returns
\* [] (cached version) or rethrows (verifying version).
getBlockNumberRejects ==
  /\ resolve.pc = "getBlockNumber"
  /\ resolve' =
       IF resolve.version = "cached"
         THEN Returned([resolve EXCEPT !.ledgerCalls = @ + 1], {}, now)
         ELSE Threw([resolve EXCEPT !.ledgerCalls = @ + 1], now)
  /\ UNCHANGED <<appVars, registryVars, rpcVars, retry, sibling, build, now, accessibleFilesCache, prev>>

\* afterChunk as it would be stepping one block short of the chunk size.
afterChunkOverlaps(call, hashes, cache, clock) ==
  IF call.fromBlock + CHUNK_SIZE <= call.latestBlock
    THEN [resolve |-> [call EXCEPT !.pc = "queryFilter",
                                   !.fromBlock = @ + CHUNK_SIZE - 1,
                                   !.retryCount = 0,
                                   !.accessibleHashes = hashes],
          cache |-> cache]
    ELSE [resolve |-> Returned([call EXCEPT !.retryCount = 0,
                                            !.accessibleHashes = hashes,
                                            !.entryTimestamp = clock],
                               hashes, clock),
          cache |-> [cache EXCEPT ![toLowerCase(call.address)] =
                       [present |-> TRUE, hashes |-> hashes, timestamp |-> clock]]]

\* The chunk [fromBlock, toBlock] is done (scanned or skipped): the next
\* chunk, or past the last one the result is cached and returned.
afterChunk(call, hashes, cache, clock) ==
  IF call.fromBlock + CHUNK_SIZE <= call.latestBlock
    THEN [resolve |-> [call EXCEPT !.pc = "queryFilter",
                                   !.fromBlock = @ + CHUNK_SIZE,
                                   !.retryCount = 0,
                                   !.accessibleHashes = hashes],
          cache |-> cache]
    ELSE [resolve |-> Returned([call EXCEPT !.retryCount = 0,
                                            !.accessibleHashes = hashes,
                                            !.entryTimestamp = clock],
                               hashes, clock),
          cache |-> [cache EXCEPT ![toLowerCase(call.address)] =
                       [present |-> TRUE, hashes |-> hashes, timestamp |-> clock]]]

\* forEachAdd as it would be keeping only the hashes of the latest chunk.
forEachAddReplaces(accessibleHashes, events) == events

\* events.forEach(event => accessibleHashes.add(fileHash.toLowerCase())) on
\* the Set accessibleHashes: a hash already in the Set is not added again.
forEachAdd(accessibleHashes, events) == accessibleHashes \cup events

\* Both queryFilter calls of the chunk resolve.
queryFilterResolves ==
  /\ resolve.pc = "queryFilter"
  /\ LET toBlock == Min(resolve.fromBlock + CHUNK_SIZE - 1, resolve.latestBlock)
         accessEvents == queryFilter(log, "AccessGranted", resolve.address,
                                     resolve.fromBlock, toBlock)
         ownerEvents == queryFilter(log, "FileAdded", resolve.address,
                                    resolve.fromBlock, toBlock)
         next == afterChunk([resolve EXCEPT !.ledgerCalls = @ + 2,
                                            !.scanned = TRUE,
                                            !.client = resolve.contract,
                                            !.succeeded = @ \cup {resolve.fromBlock}],
                            forEachAdd(forEachAdd(resolve.accessibleHashes, accessEvents),
                                       ownerEvents),
                            accessibleFilesCache, now)
     IN  /\ resolve' = next.resolve
         /\ accessibleFilesCache' = next.cache
  /\ UNCHANGED <<appVars, registryVars, rpcVars, retry, sibling, build, now, prev>>

\* One of them rejects, or the 10 s timeout wins: count the retry, rotate
\* the endpoint and wait a second.
queryFilterRejects ==
  /\ resolve.pc = "queryFilter"
  /\ resolve.version = "cached"
  /\ LET r == rotateRpcEndpoint(SEPOLIA_RPC_ENDPOINTS(INFURA_URL), currentRpcIndex)
     IN  /\ currentRpcIndex' = r.currentRpcIndex
         /\ provider' = r.provider
         /\ signer' = r.signer
         /\ contract' = r.contract
  /\ resolve' = [resolve EXCEPT !.pc = "retryWait", !.retryCount = @ + 1,
                                !.ledgerCalls = @ + 2,
                                !.client = resolve.contract]
  /\ UNCHANGED <<appVars, registryVars, INFURA_URL, retry, sibling, build, now, accessibleFilesCache, prev>>

\* retryWaitOver as it would be giving up the whole call once a chunk has
\* used its attempts.
retryWaitOverAborts ==
  /\ resolve.pc = "retryWait"
  /\ resolve' = IF resolve.retryCount >= MAX_RETRIES
                  THEN Returned(resolve, {}, now)
                  ELSE [resolve EXCEPT !.pc = "queryFilter"]
  /\ UNCHANGED <<appVars, registryVars, rpcVars, retry, sibling, build, now, accessibleFilesCache, prev>>

\* retryWaitOver as it would be allowing one attempt more per chunk.
retryWaitOverOneMore ==
  /\ resolve.pc = "retryWait"
  /\ LET next == IF resolve.retryCount > MAX_RETRIES
                   THEN afterChunk(resolve, resolve.accessibleHashes,
                                   accessibleFilesCache, now)
                   ELSE [resolve |-> [resolve EXCEPT !.pc = "queryFilter"],
                         cache |-> accessibleFilesCache]
     IN  /\ resolve' = next.resolve
         /\ accessibleFilesCache' = next.cache
  /\ UNCHANGED <<appVars, registryVars, rpcVars, retry, sibling, build, now, prev>>

\* The wait is over: after MAX_RETRIES failures the chunk is skipped, else
\* it is queried again.
retryWaitOver ==
  /\ resolve.pc = "retryWait"
  /\ LET next == IF resolve.retryCount >= MAX_RETRIES
                   THEN afterChunk(resolve, resolve.accessibleHashes,
                                   accessibleFilesCache, now)
                   ELSE [resolve |-> [resolve EXCEPT !.pc = "queryFilter"],
                         cache |-> accessibleFilesCache]
     IN  /\ resolve' = next.resolve
         /\ accessibleFilesCache' = next.cache
  /\ UNCHANGED <<appVars, registryVars, rpcVars, retry, sibling, build, now, prev>>

\* Verifying version, one chunk of one of its two loops: the query resolves
\* and its hashes are added, or it rejects and the chunk is skipped.
\* After the last chunk of the AccessGranted loop the FileAdded loop starts
\* at START_BLOCK again; after its last chunk the verification starts.
afterVerifyingChunk(call, hashes) ==
  IF call.fromBlock + VERIFYING_CHUNK_SIZE <= call.latestBlock
    THEN [call EXCEPT !.fromBlock = @ + VERIFYING_CHUNK_SIZE,
                      !.accessibleHashes = hashes,
                      !.ledgerCalls = @ + 1]
    ELSE [call EXCEPT !.fromBlock = Max(0, call.latestBlock - VERIFYING_SCAN_WINDOW),
                      !.accessibleHashes = hashes,
                      !.ledgerCalls = @ + 1,
                      !.pc = IF call.pc = "grantedQuery" THEN "ownerQuery" ELSE "verify"]

verifyingQueryResolves ==
  /\ resolve.pc \in {"grantedQuery", "ownerQuery"}
  /\ LET toBlock == Min(resolve.fromBlock + VERIFYING_CHUNK_SIZE - 1, resolve.latestBlock)
         type == IF resolve.pc = "grantedQuery" THEN "AccessGranted" ELSE "FileAdded"
         events == queryFilter(log, type, resolve.address, resolve.fromBlock, toBlock)
     IN  resolve' = afterVerifyingChunk([resolve EXCEPT !.scanned = TRUE,
                                                       !.client = resolve.contract],
                                        resolve.accessibleHashes \cup events)
  /\ UNCHANGED <<appVars, registryVars, rpcVars, retry, sibling, build, now, accessibleFilesCache, prev>>

verifyingQueryRejects ==
  /\ resolve.pc \in {"grantedQuery", "ownerQuery"}
  /\ resolve' = afterVerifyingChunk([resolve EXCEPT !.client = resolve.contract],
                                    resolve.accessibleHashes)
  /\ UNCHANGED <<appVars, registryVars, rpcVars, retry, sibling, build, now, accessibleFilesCache, prev>>

\* Promise.all of one hasFileAccess per candidate: a candidate is dropped
\* when the contract answers false and kept when it answers true or when
\* its call fails.
verifyCandidates ==
  /\ resolve.pc = "verify"
  /\ \E failed \in SUBSET resolve.accessibleHashes :
       LET kept == {h \in resolve.accessibleHashes :
                      LET a == hasFileAccess(files, h, resolve.address, h \notin failed)
                      IN  IF a.err = "" THEN a.value ELSE TRUE}
       IN  resolve' = Returned([resolve EXCEPT !.ledgerCalls =
                                  @ + Cardinality(resolve.accessibleHashes)],
                               kept, now)
  /\ UNCHANGED <<appVars, registryVars, rpcVars, retry, sibling, build, now, accessibleFilesCache, prev>>

\* The caller has the result; the engine is idle again.
resolveSettled ==
  /\ resolve.pc \in {"returned", "threw"}
  /\ prev' = [Idle EXCEPT !.calls = resolve.calls,
                         !.version = resolve.version,
                         !.address = resolve.address,
                         !.pc = resolve.pc,
                         !.result = resolve.result,
                         !.startedAt = resolve.startedAt,
                         !.entryTimestamp = resolve.entryTimestamp]
  /\ resolve' = Idle
  /\ UNCHANGED <<appVars, registryVars, rpcVars, retry, sibling, build, now, accessibleFilesCache>>

InitResolve ==
  /\ \E scenario \in Scenarios :
       /\ files = Ledger(scenario).files
       /\ log = Ledger(scenario).log
       /\ tip = scenario.tip
  /\ lastCall = NoCall
  /\ INFURA_URL = "https://sepolia.infura.io"
  /\ currentRpcIndex = 0
  /\ provider \in {Undefined, createProvider(SEPOLIA_RPC_ENDPOINTS(INFURA_URL), 0)}
  /\ signer = provider
  /\ contract = signer
  /\ retry = NoRetry
  /\ build \in Builds
  /\ EngineIdle
  /\ AppIdle

NextResolve ==
  \/ Tick
  \/ clearExpiredCache
  \/ getAccessibleFileHashes
  \/ getAccessibleFileHashesVerifying
  \/ getBlockNumberResolves
  \/ getBlockNumberRejects
  \/ queryFilterResolves
  \/ queryFilterRejects
  \/ retryWaitOver
  \/ verifyingQueryResolves
  \/ verifyingQueryRejects
  \/ verifyCandidates
  \/ resolveSettled

SpecResolve == InitResolve /\ [][NextResolve]_vars

(***************************************************************************)
(* The earlier definition of getAccessibleFileHashes in the same file: the *)
(* same cache and window, no timeouts, one retry per chunk on the client   *)
(* of the rotated endpoint, errors before the scan rethrown.               *)
(***************************************************************************)
getAccessibleFileHashesEarlier ==
  /\ build = "earlier"
  /\ resolve.pc = "idle"
  /\ prev.calls < MaxCalls
  /\ \E address \in AddressInputs :
       LET cacheKey == toLowerCase(address)
           cached == accessibleFilesCache[cacheKey]
           call == [Idle EXCEPT !.version = "earlier", !.address = address,
                                !.startedAt = now, !.calls = prev.calls + 1]
       IN  resolve' =
             IF cacheHit(cached, now)
               THEN Returned([call EXCEPT !.entryTimestamp = cached.timestamp],
                             cached.hashes, now)
             ELSE IF contract = Undefined \/ provider = Undefined
               THEN Threw(call, now)
             ELSE [call EXCEPT !.pc = "getBlockNumber", !.contract = contract]
  /\ UNCHANGED <<appVars, registryVars, rpcVars, retry, sibling, build, now, accessibleFilesCache, prev>>

\* The first query of the chunk rejects: rotate the endpoint and query the
\* chunk once more, on retryContract = getContract().
firstQueryRejects ==
  /\ resolve.pc = "queryFilter"
  /\ resolve.version = "earlier"
  /\ LET r == rotateRpcEndpoint(SEPOLIA_RPC_ENDPOINTS(INFURA_URL), currentRpcIndex)
     IN  /\ currentRpcIndex' = r.currentRpcIndex
         /\ provider' = r.provider
         /\ signer' = r.signer
         /\ contract' = r.contract
         /\ resolve' = [resolve EXCEPT !.pc = "retryQuery",
                                       !.ledgerCalls = @ + 2,
                                       !.client = resolve.contract]
  /\ UNCHANGED <<appVars, registryVars, INFURA_URL, retry, sibling, build, now, accessibleFilesCache, prev>>

\* The retry resolves: its hashes are added and the loop goes on.
retryQueryResolves ==
  /\ resolve.pc = "retryQuery"
  /\ LET toBlock == Min(resolve.fromBlock + CHUNK_SIZE - 1, resolve.latestBlock)
         accessEvents == queryFilter(log, "AccessGranted", resolve.address,
                                     resolve.fromBlock, toBlock)
         ownerEvents == queryFilter(log, "FileAdded", resolve.address,
                                    resolve.fromBlock, toBlock)
         next == afterChunk([resolve EXCEPT !.ledgerCalls = @ + 2,
                                            !.scanned = TRUE,
                                            !.client = contract,
                                            !.succeeded = @ \cup {resolve.fromBlock}],
                            forEachAdd(forEachAdd(resolve.accessibleHashes, accessEvents),
                                       ownerEvents),
                            accessibleFilesCache, now)
     IN  /\ resolve' = next.resolve
         /\ accessibleFilesCache' = next.cache
  /\ UNCHANGED <<appVars, registryVars, rpcVars, retry, sibling, build, now, prev>>

\* The retry rejects too: the chunk is given up and the loop goes on.
retryQueryRejects ==
  /\ resolve.pc = "retryQuery"
  /\ LET next == afterChunk([resolve EXCEPT !.ledgerCalls = @ + 2,
                                            !.client = contract],
                            resolve.accessibleHashes, accessibleFilesCache, now)
     IN  /\ resolve' = next.resolve
         /\ accessibleFilesCache' = next.cache
  /\ UNCHANGED <<appVars, registryVars, rpcVars, retry, sibling, build, now, prev>>

\* A call in progress, of either definition.
Scanning == resolve.pc \in {"getBlockNumber", "queryFilter", "retryWait", "retryQuery"}

\* Every await of a call in progress settles: the tip-height read and the
\* event queries resolve or reject (at the latest when their timeout
\* fires), and the wait before a retry ends.
Settles ==
  \/ getBlockNumberResolves
  \/ getBlockNumberRejects
  \/ queryFilterResolves
  \/ queryFilterRejects
  \/ retryWaitOver
  \/ firstQueryRejects
  \/ retryQueryResolves
  \/ retryQueryRejects

InitScan ==
  /\ \E scenario \in Scenarios :
       /\ files = Ledger(scenario).files
       /\ log = Ledger(scenario).log
       /\ tip = scenario.tip
  /\ lastCall = NoCall
  /\ INFURA_URL = "https://sepolia.infura.io"
  /\ Initialized
  /\ retry = NoRetry
  /\ build \in {"cached", "earlier"}
  /\ EngineIdle
  /\ AppIdle

NextScan ==
  \/ getAccessibleFileHashes
  \/ getAccessibleFileHashesEarlier
  \/ getBlockNumberResolves
  \/ getBlockNumberRejects
  \/ queryFilterResolves
  \/ queryFilterRejects
  \/ retryWaitOver
  \/ firstQueryRejects
  \/ retryQueryResolves
  \/ retryQueryRejects
  \/ resolveSettled

SpecScan == InitScan /\ [][NextScan]_vars /\ WF_vars(Settles)

(***************************************************************************)
(* The engine's cache under a finer clock: the deployed                    *)
(* getAccessibleFileHashes with an initialized client, while time passes   *)
(* in steps of 1 ms, 2 ms or CACHE_TTL - 1 ms.                             *)
(***************************************************************************)
\* setTimeout(() => reject(new Error('getBlockNumber timeout')), 5000)
GET_BLOCK_NUMBER_TIMEOUT == 5000
ElapseSteps == {1, 2, CACHE_TTL - 1}
\* Clock advances so far, a pair of 1 ms steps counted as one of 2 ms.
ElapseCount(clock) ==
  (clock \div (CACHE_TTL - 1)) + (((clock % (CACHE_TTL - 1)) + 1) \div 2)

\* Time passes while the engine is idle, or awaits the tip height for less
\* than the timeout of that read.
Elapse ==
  /\ resolve.pc \in {"idle", "getBlockNumber"}
  /\ ElapseCount(now) < MaxTicks
  /\ \E d \in ElapseSteps :
       /\ resolve.pc = "getBlockNumber" => d < GET_BLOCK_NUMBER_TIMEOUT
       /\ now' = now + d
  /\ UNCHANGED <<appVars, registryVars, rpcVars, retry, sibling, build, accessibleFilesCache, resolve, prev>>

InitExpiry ==
  /\ \E scenario \in Scenarios :
       /\ files = Ledger(scenario).files
       /\ log = Ledger(scenario).log
       /\ tip = scenario.tip
  /\ lastCall = NoCall
  /\ INFURA_URL = "https://sepolia.infura.io"
  /\ Initialized
  /\ retry = NoRetry
  /\ build = "cached"
  /\ EngineIdle
  /\ AppIdle

NextExpiry ==
  \/ Elapse
  \/ clearExpiredCache
  \/ getAccessibleFileHashes
  \/ getBlockNumberResolves
  \/ getBlockNumberRejects
  \/ queryFilterResolves
  \/ queryFilterRejects
  \/ retryWaitOver
  \/ resolveSettled

SpecExpiry == InitExpiry /\ [][NextExpiry]_vars

(***************************************************************************)
(* Access gate: downloadFile (GET /api/download/:key)                      *)
(***************************************************************************)
\* Firestore: the 'files' documents by s3Key and the 'users' documents by
\* uid.  k3 has no 'files' document and u3 no 'users' document.
Users == {"u1", "u2", "u3"}
FirestoreFiles ==
  [k \in {"k1", "k2"} |-> IF k = "k1" THEN [hash |-> "h1", uid |-> "u1"]
                          ELSE [hash |-> "h2", uid |-> "u2"]]
FirestoreUsers ==
  [u \in {"u1", "u2"} |-> IF u = "u1" THEN [walletAddresses |-> <<"0xa1">>]
                          ELSE [walletAddresses |-> <<"0xb2", "0xc3">>]]

\* res.status(code).json(...): the request is answered.
Responded(req, code, url) ==
  [req EXCEPT !.pc = "responded", !.status = code, !.downloadUrl = url]

\* The access verification is over without a 403: on to getFileFromS3.
ToSign(req, how) == [req EXCEPT !.pc = "getFileFromS3", !.allow = how]

\* downloadFile up to its first await.  The route installs no
\* authentication middleware, so req.user is whatever the request carries.
downloadFile ==
  /\ download.pc = "idle"
  /\ \E key \in S3ObjectKeys \cup {""}, user \in Users \cup {Null},
        firestoreAvailable \in BOOLEAN :
       LET req == [NoDownload EXCEPT !.key = key, !.user = user]
       IN  download' =
             IF key = "" THEN Responded(req, 400, "")
             ELSE IF ~firestoreAvailable THEN ToSign(req, "unchecked")
             ELSE [req EXCEPT !.pc = "filesQuery"]
  /\ UNCHANGED <<registryVars, rpcVars, retry, engineVars, upload, decrypt, bucket>>

\* db.collection('files').where('s3Key', '==', key).limit(1).get() resolves.
\* No document: no check.  The owner by uid passes.  Otherwise the user's
\* document is fetched; db.collection('users').doc(null) throws, which the
\* outer catch swallows.
filesQueryResolves ==
  /\ download.pc = "filesQuery"
  /\ download' =
       IF download.key \notin DOMAIN FirestoreFiles
         THEN ToSign(download, "noRecord")
       ELSE LET fileData == FirestoreFiles[download.key]
                req == [download EXCEPT !.fileHash = fileData.hash,
                                        !.fileOwner = fileData.uid]
                currentUser == download.user
            IN  IF currentUser # Null /\ fileData.uid = currentUser
                  THEN ToSign(req, "owner")
                ELSE IF currentUser = Null
                  THEN ToSign([req EXCEPT !.lookupThrew = TRUE], "verificationFailed")
                ELSE [req EXCEPT !.pc = "userDoc"]
  /\ UNCHANGED <<registryVars, rpcVars, retry, engineVars, upload, decrypt, bucket>>

\* A Firestore read rejects: catch (accessError), continue with the download.
firestoreRejects ==
  /\ download.pc \in {"filesQuery", "userDoc"}
  /\ download' = ToSign([download EXCEPT !.lookupThrew = TRUE], "verificationFailed")
  /\ UNCHANGED <<registryVars, rpcVars, retry, engineVars, upload, decrypt, bucket>>

\* The end of the loop over walletAddresses with hasAccess still false.
AccessDenied(req) == Responded(req, 403, "")

\* db.collection('users').doc(currentUser).get() resolves.
userDocResolves ==
  /\ download.pc = "userDoc"
  /\ LET userData == IF download.user \in DOMAIN FirestoreUsers
                       THEN FirestoreUsers[download.user]
                       ELSE [walletAddresses |-> <<>>]
         req == [download EXCEPT !.walletAddresses = userData.walletAddresses]
     IN  download' = IF req.walletAddresses = <<>> THEN AccessDenied(req)
                     ELSE [req EXCEPT !.pc = "hasFileAccess"]
  /\ UNCHANGED <<registryVars, rpcVars, retry, engineVars, upload, decrypt, bucket>>

\* await hasFileAccess(fileHash, address) for the next wallet address: true
\* ends the loop; false or a thrown error moves on to the next address.
hasFileAccessSettles ==
  /\ download.pc = "hasFileAccess"
  /\ \E rpcOk \in BOOLEAN :
       LET address == Head(download.walletAddresses)
           a == hasFileAccess(files, download.fileHash, address, rpcOk)
           outcome == IF a.err # "" THEN "error" ELSE IF a.value THEN "true" ELSE "false"
           req == [download EXCEPT !.walletAddresses = Tail(@),
                                   !.checks = Append(@, outcome)]
       IN  download' = IF outcome = "true" THEN ToSign(req, "granted")
                       ELSE IF req.walletAddresses = <<>> THEN AccessDenied(req)
                       ELSE req
  /\ UNCHANGED <<registryVars, rpcVars, retry, engineVars, upload, decrypt, bucket>>

\* getFileFromS3(key, 300): the pre-signed URL, or the outer catch's 500.
getFileFromS3Settles ==
  /\ download.pc = "getFileFromS3"
  /\ \E signed \in BOOLEAN :
       download' = IF signed THEN Responded(download, 200, download.key)
                   ELSE Responded(download, 500, "")
  /\ UNCHANGED <<registryVars, rpcVars, retry, engineVars, upload, decrypt, bucket>>

downloadSettled ==
  /\ download.pc = "responded"
  /\ download' = NoDownload
  /\ UNCHANGED <<registryVars, rpcVars, retry, engineVars, upload, decrypt, bucket>>

InitDownload ==
  /\ \E scenario \in Scenarios :
       /\ files = Ledger(scenario).files
       /\ log = Ledger(scenario).log
       /\ tip = scenario.tip
  /\ lastCall = NoCall
  /\ INFURA_URL = "https://sepolia.infura.io"
  /\ Initialized
  /\ retry = NoRetry
  /\ build = "cached"
  /\ EngineIdle
  /\ AppIdle

NextDownload ==
  \/ downloadFile
  \/ filesQueryResolves
  \/ firestoreRejects
  \/ userDocResolves
  \/ hasFileAccessSettles
  \/ getFileFromS3Settles
  \/ downloadSettled

SpecDownload == InitDownload /\ [][NextDownload]_vars

(***************************************************************************)
(* utils/encryption.js: AES-256-GCM                                        *)
(***************************************************************************)
\* Buffers are sequences of bytes, up to MaxBufferLen long; a byte has one
\* of three values.
MaxBufferLen == 2
Bytes == {0, 1, 2}
Buffers == UNION {[1..n -> Bytes] : n \in 0..MaxBufferLen}

KEY_LENGTH == 32
IV_LENGTH == 12
\* The length of the tag cipher.getAuthTag() returns, and the lengths
\* decipher.setAuthTag() accepts when createDecipheriv is given no
\* authTagLength.
TAG_LENGTH == 16
ValidTagLengths == {4, 8, 12, 13, 14, 15, 16}

\* crypto.randomBytes(n): n bytes, here told apart by an id.
randomBytes(n) == {[length |-> n, id |-> i] : i \in {0, 1}}

generateKey == randomBytes(KEY_LENGTH)

\* Counter mode: the key stream byte at position i, taken as never zero,
\* is added to the plaintext byte and taken off the ciphertext byte.
keystream(key, iv, i) == 1 + ((key.id + iv.id + i) % 2)
cipherUpdate(buffer, key, iv) ==
  [i \in 1..Len(buffer) |-> (buffer[i] + keystream(key, iv, i)) % 3]
decipherUpdate(buffer, key, iv) ==
  [i \in 1..Len(buffer) |-> (buffer[i] + 3 - keystream(key, iv, i)) % 3]

\* GHASH under the key over the IV and the ciphertext, taken as collision
\* free; flippedAt is the first byte of the tag that was changed, if any.
getAuthTag(key, iv, ciphertext) ==
  [mac |-> <<key, iv, ciphertext>>, length |-> TAG_LENGTH, flippedAt |-> 0]

\* The first n bytes of a tag.
Truncated(tag, n) ==
  [tag EXCEPT !.length = n, !.flippedAt = IF @ > n THEN 0 ELSE @]

\* The tag with a bit of byte i flipped.
Flipped(tag, i) ==
  [tag EXCEPT !.flippedAt = IF @ = 0 \/ i < @ THEN i ELSE @]

\* createCipheriv / createDecipheriv reject a key that is not 32 bytes.
InvalidKey(key) == key.length # KEY_LENGTH

\* encryptBuffer as it would be if the cipher passed its input through.
encryptBufferKeepsPlaintext(buffer, key, iv) ==
  [err |-> "", ciphertext |-> buffer, iv |-> iv, authTag |-> getAuthTag(key, iv, buffer)]

\* encryptBuffer(buffer, key), with the IV that crypto.randomBytes drew.
encryptBuffer(buffer, key, iv) ==
  IF InvalidKey(key)
    THEN [err |-> "Encryption failed", ciphertext |-> <<>>, iv |-> iv,
          authTag |-> getAuthTag(key, iv, <<>>)]
  ELSE LET encrypted == cipherUpdate(buffer, key, iv)
       IN  [err |-> "", ciphertext |-> encrypted, iv |-> iv,
            authTag |-> getAuthTag(key, iv, encrypted)]

\* decipher.final(): the tag set is compared, over its own length, with the
\* tag of what was deciphered.
decipherFinal(ciphertext, key, iv, authTag) ==
  authTag = Truncated(getAuthTag(key, iv, ciphertext), authTag.length)

\* decryptBuffer as it would be if it returned what it was given.
decryptBufferReturnsInput(ciphertext, key, iv, authTag) ==
  [err |-> "", decrypted |-> ciphertext]

\* decryptBuffer(ciphertext, key, iv, authTag)
decryptBuffer(ciphertext, key, iv, authTag) ==
  IF \/ InvalidKey(key)
     \/ authTag.length \notin ValidTagLengths
     \/ ~decipherFinal(ciphertext, key, iv, authTag)
    THEN [err |-> "Decryption failed", decrypted |-> <<>>]
  ELSE [err |-> "", decrypted |-> decipherUpdate(ciphertext, key, iv)]

\* crypto.createHash('sha256').update(buffer).digest('hex'), taken as
\* collision free.
computeHash(buffer) == [sha256 |-> buffer]

(***************************************************************************)
(* uploadFile (POST /api/upload) and downloadAndDecrypt                    *)
(* (POST /api/download/decrypt)                                            *)
(***************************************************************************)
\* The wallet of the backend's signer.
Signer == "0xa1"
\* `${Date.now()}_${originalname}`
UniqueKeys == {"k1", "k2"}

\* uploadFile up to its first await: no file is a 400; else the key is
\* generated, the buffer encrypted, the ciphertext hashed and the S3 key
\* made up.
uploadFile ==
  /\ upload.pc = "idle"
  /\ decrypt.pc = "idle"
  /\ \E hasFile \in BOOLEAN, buffer \in Buffers, aesKey \in generateKey,
        iv \in randomBytes(IV_LENGTH), uniqueKey \in UniqueKeys :
       LET req == NoUpload
           e == encryptBuffer(buffer, aesKey, iv)
       IN  upload' =
             IF ~hasFile THEN [req EXCEPT !.pc = "responded", !.status = 400]
             ELSE IF e.err # "" THEN [req EXCEPT !.pc = "responded", !.status = 500]
             ELSE [req EXCEPT !.pc = "uploadToS3",
                              !.buffer = buffer,
                              !.aesKey = aesKey,
                              !.iv = e.iv,
                              !.ciphertext = e.ciphertext,
                              !.authTag = e.authTag,
                              !.fileHash = computeHash(e.ciphertext),
                              !.uniqueKey = uniqueKey]
  /\ UNCHANGED <<registryVars, rpcVars, retry, engineVars, download, decrypt, bucket>>

\* uploadToS3(uniqueKey, ciphertext, mimetype): the object is put, or the
\* outer catch answers 500.
uploadToS3Settles ==
  /\ upload.pc = "uploadToS3"
  /\ \E put \in BOOLEAN :
       IF put
         THEN /\ bucket' = [bucket EXCEPT ![upload.uniqueKey] =
                              [exists |-> TRUE, body |-> upload.ciphertext]]
              /\ upload' = [upload EXCEPT !.pc = "addFileRecord"]
         ELSE /\ upload' = [upload EXCEPT !.pc = "responded", !.status = 500]
              /\ UNCHANGED bucket
  /\ UNCHANGED <<registryVars, rpcVars, retry, engineVars, download, decrypt>>

\* addFileRecord(fileHash, uniqueKey): contract.addFile is mined and the
\* transaction hash returned, or the call fails (a revert, or the RPC) and
\* txHash stays null; either way the answer is 200 with the metadata.
addFileRecordSettles ==
  /\ upload.pc = "addFileRecord"
  /\ \E rpcOk \in BOOLEAN :
       LET r == addFile(files, Signer, upload.fileHash, upload.uniqueKey, NextBlock)
       IN  IF rpcOk
             THEN /\ files' = r.files
                  /\ log' = log \o r.events
                  /\ lastCall' = [op |-> "addFile", err |-> r.err]
                  /\ tip' = IF r.err = "" THEN NextBlock ELSE tip
                  /\ upload' = [upload EXCEPT !.pc = "responded", !.status = 200,
                                              !.txHash = IF r.err = "" THEN "tx" ELSE Null]
             ELSE /\ upload' = [upload EXCEPT !.pc = "responded", !.status = 200]
                  /\ UNCHANGED registryVars
  /\ UNCHANGED <<rpcVars, retry, engineVars, download, decrypt, bucket>>

\* A key that createDecipheriv rejects.
ShortKey == [length |-> 16, id |-> 0]

\* The authTag values a request may carry: the tag of the last upload, whole,
\* cut to its first bytes, or with a bit flipped.
AuthTagInputs(tag) ==
  {tag, Truncated(tag, 12), Truncated(tag, 4), Truncated(tag, 3),
   Flipped(tag, 1), Flipped(tag, TAG_LENGTH), Truncated(Flipped(tag, 1), 4)}

\* downloadAndDecrypt up to its await: a missing parameter is a 400.
downloadAndDecrypt ==
  /\ decrypt.pc = "idle"
  /\ upload.pc \in {"idle", "responded"}
  /\ \E key \in UniqueKeys \cup {""}, aesKey \in generateKey \cup {ShortKey},
        iv \in randomBytes(IV_LENGTH), authTag \in AuthTagInputs(upload.authTag) :
       LET req == [NoDecrypt EXCEPT !.key = key, !.aesKey = aesKey, !.iv = iv,
                                    !.authTag = authTag]
       IN  decrypt' = IF key = "" THEN [req EXCEPT !.pc = "responded", !.status = 400]
                      ELSE [req EXCEPT !.pc = "downloadFromS3"]
  /\ UNCHANGED <<registryVars, rpcVars, retry, engineVars, download, upload, bucket>>

\* downloadFromS3(key) resolves with the object and decryptBuffer runs: the
\* plaintext is sent, or the catch answers 500.
downloadFromS3Resolves ==
  /\ decrypt.pc = "downloadFromS3"
  /\ bucket[decrypt.key].exists
  /\ LET encryptedBuffer == bucket[decrypt.key].body
         d == decryptBuffer(encryptedBuffer, decrypt.aesKey, decrypt.iv, decrypt.authTag)
         req == [decrypt EXCEPT !.pc = "responded", !.encryptedBuffer = encryptedBuffer]
     IN  decrypt' = IF d.err = ""
                      THEN [req EXCEPT !.status = 200, !.sent = TRUE, !.body = d.decrypted]
                      ELSE [req EXCEPT !.status = 500]
  /\ UNCHANGED <<registryVars, rpcVars, retry, engineVars, download, upload, bucket>>

\* downloadFromS3(key) rejects: no such object, or the store is unreachable.
downloadFromS3Rejects ==
  /\ decrypt.pc = "downloadFromS3"
  /\ decrypt' = [decrypt EXCEPT !.pc = "responded", !.status = 500]
  /\ UNCHANGED <<registryVars, rpcVars, retry, engineVars, download, upload, bucket>>

decryptSettled ==
  /\ decrypt.pc = "responded"
  /\ decrypt' = NoDecrypt
  /\ UNCHANGED <<registryVars, rpcVars, retry, engineVars, download, upload, bucket>>

\* The ledger before the upload: nothing registered, or the ciphertext <<1>>
\* registered by an earlier upload under k1.
Hashes == {computeHash(b) : b \in Buffers}
EarlierUpload == <<Tx("addFile", Signer, computeHash(<<1>>), "k1", ZeroAddress, 1)>>

InitCipher ==
  /\ \E txs \in {<<>>, EarlierUpload} :
       LET ledger == Replay([files |-> [h \in Hashes |-> FileInfo], log |-> <<>>], txs)
       IN  /\ files = ledger.files
           /\ log = ledger.log
           /\ tip = Len(txs)
  /\ lastCall = NoCall
  /\ INFURA_URL = "https://sepolia.infura.io"
  /\ Initialized
  /\ retry = NoRetry
  /\ build = "cached"
  /\ EngineIdle
  /\ AppIdle

NextCipher ==
  \/ uploadFile
  \/ uploadToS3Settles
  \/ addFileRecordSettles
  \/ downloadAndDecrypt
  \/ downloadFromS3Resolves
  \/ downloadFromS3Rejects
  \/ decryptSettled

SpecCipher == InitCipher /\ [][NextCipher]_vars

(***************************************************************************)
(* addFileRecord: contract.addFile sent and confirmed inside               *)
(* retryWithBackoff, against the registry.                                 *)
(***************************************************************************)
\* retryWithBackoff(async () => { ... }, 5, 2000)
ADD_FILE_MAX_RETRIES == 5
ADD_FILE_BASE_DELAY == 2000

\* Errors of the RPC endpoint while a transaction is sent or its receipt is
\* awaited: one that retryWithBackoff retries and one that it does not.
RpcErrors == {TooManyRequests, QueryTimeout}

\* The catch of retryWithBackoff for the error of the current attempt: back
\* off when it is a rate-limit / block-range error and attempts remain,
\* else rethrow it (addFileRecord wraps and rethrows it in turn).
caught(r, error) ==
  IF isRateLimitError(error) /\ ~isLastAttempt(r.attempt, r.maxRetries)
    THEN [r EXCEPT !.pc = "sleeping",
                   !.outcomes = Append(@, Rejected(error)),
                   !.clients = Append(@, r.contract),
                   !.delays = Append(@, backoffDelay(r.baseDelay, r.attempt))]
    ELSE [r EXCEPT !.pc = "threw",
                   !.outcomes = Append(@, Rejected(error)),
                   !.clients = Append(@, r.contract),
                   !.result = Thrown(error)]

\* addFileRecord(fileHash, s3Key) up to its first await: the contract is
\* taken once and the first attempt calls contract.addFile.
addFileRecord ==
  /\ retry.pc = "idle"
  /\ \E fileHash \in TxFileHashes, s3Key \in UniqueKeys :
       retry' = [NoRetry EXCEPT !.pc = "calling",
                                !.maxRetries = ADD_FILE_MAX_RETRIES,
                                !.baseDelay = ADD_FILE_BASE_DELAY,
                                !.attempt = 1,
                                !.startIndex = currentRpcIndex,
                                !.contract = contract,
                                !.fileHash = fileHash,
                                !.s3Key = s3Key]
  /\ UNCHANGED <<appVars, registryVars, rpcVars, engineVars>>

\* await contract.addFile(bytes32Hash, s3Key) resolves: the call would not
\* revert on the current ledger, and the transaction is sent.
addFileSent ==
  /\ retry.pc = "calling"
  /\ addFile(files, Signer, retry.fileHash, retry.s3Key, NextBlock).err = ""
  /\ retry' = [retry EXCEPT !.pc = "wait", !.txs = Append(@, "pending")]
  /\ UNCHANGED <<appVars, registryVars, rpcVars, engineVars>>

\* It rejects because the call reverts on the current ledger: nothing is
\* sent.
addFileReverts ==
  /\ retry.pc = "calling"
  /\ addFile(files, Signer, retry.fileHash, retry.s3Key, NextBlock).err # ""
  /\ retry' = caught(retry, ExecutionReverted)
  /\ UNCHANGED <<appVars, registryVars, rpcVars, engineVars>>

\* It rejects with an error of the endpoint: nothing is sent.
addFileRejects ==
  /\ retry.pc = "calling"
  /\ \E error \in RpcErrors : retry' = caught(retry, error)
  /\ UNCHANGED <<appVars, registryVars, rpcVars, engineVars>>

\* The oldest pending transaction of the call is mined in the next block:
\* addFile registers the file, or reverts.
txMined ==
  /\ \E i \in 1..Len(retry.txs) :
       /\ retry.txs[i] = "pending"
       /\ \A j \in 1..(i - 1) : retry.txs[j] # "pending"
       /\ LET r == addFile(files, Signer, retry.fileHash, retry.s3Key, NextBlock)
          IN  /\ files' = r.files
              /\ log' = log \o r.events
              /\ lastCall' = [op |-> "addFile", err |-> r.err]
              /\ tip' = NextBlock
              /\ retry' = [retry EXCEPT !.txs[i] = IF r.err = "" THEN "mined"
                                                                ELSE "reverted"]
  /\ UNCHANGED <<appVars, rpcVars, engineVars>>

\* await tx.wait() resolves with the receipt of the mined transaction: the
\* attempt returns tx.hash.
waitResolves ==
  /\ retry.pc = "wait"
  /\ retry.txs[Len(retry.txs)] = "mined"
  /\ retry' = [retry EXCEPT !.pc = "returned",
                            !.outcomes = Append(@, Ok),
                            !.clients = Append(@, retry.contract),
                            !.result = Value(Len(retry.outcomes) + 1)]
  /\ UNCHANGED <<appVars, registryVars, rpcVars, engineVars>>

\* It rejects because the transaction was mined and reverted.
waitReverted ==
  /\ retry.pc = "wait"
  /\ retry.txs[Len(retry.txs)] = "reverted"
  /\ retry' = caught(retry, ExecutionReverted)
  /\ UNCHANGED <<appVars, registryVars, rpcVars, engineVars>>

\* It rejects with an error of the endpoint, whatever has become of the
\* transaction.
waitRejects ==
  /\ retry.pc = "wait"
  /\ \E error \in RpcErrors : retry' = caught(retry, error)
  /\ UNCHANGED <<appVars, registryVars, rpcVars, engineVars>>

\* The registry before the call: empty, or holding h1 registered by 0xb2.
InitRecord ==
  /\ \E txs \in {<<>>, <<Tx("addFile", "0xb2", "h1", "k2", ZeroAddress, 1)>>} :
       LET ledger == Replay([files |-> [h \in FileHashes |-> FileInfo], log |-> <<>>], txs)
       IN  /\ files = ledger.files
           /\ log = ledger.log
           /\ tip = Len(txs)
  /\ lastCall = NoCall
  /\ INFURA_URL \in {"", "https://sepolia.infura.io"}
  /\ Initialized
  /\ retry = NoRetry
  /\ build = "cached"
  /\ EngineIdle
  /\ AppIdle

NextRecord ==
  \/ addFileRecord
  \/ addFileSent
  \/ addFileReverts
  \/ addFileRejects
  \/ txMined
  \/ waitResolves
  \/ waitReverted
  \/ waitRejects
  \/ BackoffOver

SpecRecord == InitRecord /\ [][NextRecord]_vars

(***************************************************************************)
(* Concurrent users of the endpoint pointer: the two getAccessibleFileHashes *)
(* calls that getUserFiles starts in parallel for a user's wallet           *)
(* addresses, beside an addFileRecord whose transaction is retried.  Each   *)
(* action is the synchronous code between two awaits.                       *)
(***************************************************************************)
\* userData.walletAddresses of the user
WalletAddresses == <<"0xa1", "0xb2">>

\* getAccessibleFileHashes(address) up to its first await, as a value.
entered(address, cache, clock, ct, pv) ==
  LET cached == cache[toLowerCase(address)]
      call == [Idle EXCEPT !.version = "cached", !.address = address,
                           !.startedAt = clock, !.calls = 1]
  IN  IF cacheHit(cached, clock)
        THEN Returned([call EXCEPT !.entryTimestamp = cached.timestamp],
                      cached.hashes, clock)
      ELSE IF ct = Undefined \/ pv = Undefined
        THEN Returned(call, {}, clock)
      ELSE [call EXCEPT !.pc = "getBlockNumber", !.contract = ct]

\* walletAddresses.map(async (address) => getAccessibleFileHashes(address)):
\* both calls run to their first await.
getUserFiles ==
  /\ build = "cached"
  /\ resolve.pc = "idle"
  /\ sibling.pc = "idle"
  /\ resolve' = entered(WalletAddresses[1], accessibleFilesCache, now, contract, provider)
  /\ sibling' = entered(WalletAddresses[2], accessibleFilesCache, now, contract, provider)
  /\ UNCHANGED <<appVars, registryVars, rpcVars, retry, build, now, accessibleFilesCache, prev>>

\* The same steps for the second call: its tip-height read resolves.
siblingGetBlockNumberResolves ==
  /\ sibling.pc = "getBlockNumber"
  /\ sibling' =
       [sibling EXCEPT
          !.ledgerCalls = @ + 1,
          !.latestBlock = tip,
          !.fromBlock = IF sibling.version \in {"cached", "earlier"}
                          THEN Max(0, tip - SCAN_WINDOW)
                          ELSE Max(0, tip - VERIFYING_SCAN_WINDOW),
          !.pc = IF sibling.version \in {"cached", "earlier"}
                   THEN "queryFilter" ELSE "grantedQuery"]
  /\ UNCHANGED <<appVars, registryVars, rpcVars, retry, resolve, build, now, accessibleFilesCache, prev>>

\* Its tip-height read rejects or times out.
siblingGetBlockNumberRejects ==
  /\ sibling.pc = "getBlockNumber"
  /\ sibling' =
       IF sibling.version = "cached"
         THEN Returned([sibling EXCEPT !.ledgerCalls = @ + 1], {}, now)
         ELSE Threw([sibling EXCEPT !.ledgerCalls = @ + 1], now)
  /\ UNCHANGED <<appVars, registryVars, rpcVars, retry, resolve, build, now, accessibleFilesCache, prev>>

\* Both queryFilter calls of its chunk resolve.
siblingQueryFilterResolves ==
  /\ sibling.pc = "queryFilter"
  /\ LET toBlock == Min(sibling.fromBlock + CHUNK_SIZE - 1, sibling.latestBlock)
         accessEvents == queryFilter(log, "AccessGranted", sibling.address,
                                     sibling.fromBlock, toBlock)
         ownerEvents == queryFilter(log, "FileAdded", sibling.address,
                                    sibling.fromBlock, toBlock)
         next == afterChunk([sibling EXCEPT !.ledgerCalls = @ + 2,
                                            !.scanned = TRUE,
                                            !.client = sibling.contract,
                                            !.succeeded = @ \cup {sibling.fromBlock}],
                            forEachAdd(forEachAdd(sibling.accessibleHashes, accessEvents),
                                       ownerEvents),
                            accessibleFilesCache, now)
     IN  /\ sibling' = next.resolve
         /\ accessibleFilesCache' = next.cache
  /\ UNCHANGED <<appVars, registryVars, rpcVars, retry, resolve, build, now, prev>>

\* One of them rejects, or the timeout wins: it rotates the endpoint.
siblingQueryFilterRejects ==
  /\ sibling.pc = "queryFilter"
  /\ sibling.version = "cached"
  /\ LET r == rotateRpcEndpoint(SEPOLIA_RPC_ENDPOINTS(INFURA_URL), currentRpcIndex)
     IN  /\ currentRpcIndex' = r.currentRpcIndex
         /\ provider' = r.provider
         /\ signer' = r.signer
         /\ contract' = r.contract
  /\ sibling' = [sibling EXCEPT !.pc = "retryWait", !.retryCount = @ + 1,
                                !.ledgerCalls = @ + 2,
                                !.client = sibling.contract]
  /\ UNCHANGED <<appVars, registryVars, INFURA_URL, retry, resolve, build, now, accessibleFilesCache, prev>>

\* Its wait before the retry is over.
siblingRetryWaitOver ==
  /\ sibling.pc = "retryWait"
  /\ LET next == IF sibling.retryCount >= MAX_RETRIES
                   THEN afterChunk(sibling, sibling.accessibleHashes,
                                   accessibleFilesCache, now)
                   ELSE [resolve |-> [sibling EXCEPT !.pc = "queryFilter"],
                         cache |-> accessibleFilesCache]
     IN  /\ sibling' = next.resolve
         /\ accessibleFilesCache' = next.cache
  /\ UNCHANGED <<appVars, registryVars, rpcVars, retry, resolve, build, now, prev>>

InitRace ==
  /\ files = Ledger(YoungChain).files
  /\ log = Ledger(YoungChain).log
  /\ tip = YoungChain.tip
  /\ lastCall = NoCall
  /\ INFURA_URL \in {"", "https://sepolia.infura.io"}
  /\ Initialized
  /\ retry = NoRetry
  /\ build = "cached"
  /\ EngineIdle
  /\ AppIdle

NextRace ==
  \/ getUserFiles
  \/ getBlockNumberResolves
  \/ getBlockNumberRejects
  \/ queryFilterResolves
  \/ queryFilterRejects
  \/ retryWaitOver
  \/ siblingGetBlockNumberResolves
  \/ siblingGetBlockNumberRejects
  \/ siblingQueryFilterResolves
  \/ siblingQueryFilterRejects
  \/ siblingRetryWaitOver
  \/ addFileRecord
  \/ addFileReverts
  \/ addFileRejects
  \/ BackoffOver

SpecRace == InitRace /\ [][NextRace]_vars

(***************************************************************************)
(* Properties of the registry (Spec).                                      *)
(***************************************************************************)
NotOwnerGrant == "Not authorized: only owner can grant access"
NotOwnerRevoke == "Not authorized: only owner can revoke access"
CannotRevokeOwner == "Cannot revoke owner's access"
DuplicateFile == "File already exists"

\* The AccessGranted / AccessRevoked events of the log for (h, p), oldest first.
AccessEvents(lg, h, p) ==
  SelectSeq(lg, LAMBDA e : /\ e.fileHash = h
                           /\ e.who = p
                           /\ e.type \in {"AccessGranted", "AccessRevoked"})

\* The kind of the most recent successful grant / revoke for (h, p).
LastGrantOrRevoke(lg, h, p) ==
  LET s == AccessEvents(lg, h, p)
  IN  IF s = <<>> THEN "none" ELSE s[Len(s)].type

Registered == {h \in FileHashes : fileExists(files, h)}

\* C1: in every reachable state hasAccess(h, p) returns (never reverts) true
\* exactly when h is registered and p is its owner or the most recent
\* successful grant / revoke for (h, p) was a grant; so it returns false for
\* every unregistered h.
C1_HasAccessIffOwnerOrGranted ==
  \A h \in FileHashes, p \in Addresses :
    hasAccess(files, h, p) =
      [err |-> "",
       value |-> /\ fileExists(files, h)
                 /\ \/ p = files[h].owner
                    \/ LastGrantOrRevoke(log, h, p) = "AccessGranted"]

\* A file whose grantee was granted and then revoked, beside an unregistered hash.
C1_Witness ==
  /\ \E h \in FileHashes : ~fileExists(files, h)
  /\ \E h \in Registered, p \in Principals :
       /\ p # files[h].owner
       /\ Len(AccessEvents(log, h, p)) >= 2
       /\ LastGrantOrRevoke(log, h, p) = "AccessRevoked"
       /\ ~hasAccess(files, h, p).value

\* C2 as claimed: the owner keeps access, and revokeAccess(h, owner(h)) fails
\* with "Cannot revoke owner's access" whoever the caller is.
C2_RevokeOwnerFailsWithCannotRevokeOwner ==
  \A h \in Registered :
    /\ hasAccess(files, h, files[h].owner).value
    /\ \A sender \in Principals :
         revokeAccess(files, sender, h, files[h].owner, NextBlock).err = CannotRevokeOwner

\* C2 as amended: the owner of every registered file has access in every
\* reachable state, and revokeAccess(h, owner(h)) always reverts, leaving
\* storage and log as they were: with "Cannot revoke owner's access" when
\* the owner calls it, and with the not-owner error when anyone else does.
C2_OwnerAccessIrrevocable ==
  \A h \in Registered :
    /\ hasAccess(files, h, files[h].owner) = [err |-> "", value |-> TRUE]
    /\ \A sender \in Principals :
         revokeAccess(files, sender, h, files[h].owner, NextBlock) =
           Revert(files, IF sender = files[h].owner
                           THEN CannotRevokeOwner ELSE NotOwnerRevoke)

\* The owner has just tried to revoke their own access.
C2_Witness ==
  /\ lastCall = [op |-> "revokeAccess", err |-> CannotRevokeOwner]
  /\ \E h \in Registered : hasAccess(files, h, files[h].owner).value

\* A grant / revoke by a caller who is not the owner of a registered file
\* reverts with the not-owner error, emits nothing and changes no storage.
C3_NonOwnerReverts ==
  \A h \in Registered : \A sender \in Principals \ {files[h].owner}, p \in Addresses :
    /\ grantAccess(files, sender, h, p, NextBlock) = Revert(files, NotOwnerGrant)
    /\ revokeAccess(files, sender, h, p, NextBlock) = Revert(files, NotOwnerRevoke)

\* A step that changes the access membership of a registered file is a
\* successful grant / revoke sent by that file's owner; a reverted call
\* changes neither storage nor log.
C3_OnlyOwnerMutates ==
  /\ lastCall'.err # "" => files' = files /\ log' = log
  /\ \A h \in Registered :
       files'[h].access # files[h].access =>
         \E p \in Addresses :
           \E r \in {grantAccess(files, files[h].owner, h, p, NextBlock),
                     revokeAccess(files, files[h].owner, h, p, NextBlock)} :
             r.err = "" /\ files' = r.files /\ log' = log \o r.events

\* C3: grantAccess / revokeAccess from any caller other than the recorded
\* owner of a registered file fail with NotOwner, emit no event and leave
\* every access entry unchanged; access membership of a registered file is
\* mutated only by calls from its owner.
C3_OnlyOwnerGrantsOrRevokes ==
  [](C3_NonOwnerReverts) /\ [][C3_OnlyOwnerMutates]_vars

\* A non-owner's revoke has just been rejected while a grantee holds access.
C3_Witness ==
  /\ lastCall = [op |-> "revokeAccess", err |-> NotOwnerRevoke]
  /\ \E h \in Registered : files[h].access # {files[h].owner}

\* Every addFile on a registered hash reverts with "File already exists",
\* whatever the caller and the pointer, and the owner of the file has access.
C4_DuplicateReverts ==
  \A h \in Registered :
    /\ hasAccess(files, h, files[h].owner).value
    /\ \A sender \in Principals, k \in S3Keys :
         addFile(files, sender, h, k, NextBlock) = Revert(files, DuplicateFile)

\* The step that registers h is an addFile by some caller O, after which
\* O is the owner and hasAccess(h, O) is true.
C4_RegisteringStep ==
  \A h \in FileHashes :
    ~fileExists(files, h) /\ fileExists(files', h) =>
      \E sender \in Principals, k \in S3Keys :
        /\ files' = addFile(files, sender, h, k, NextBlock).files
        /\ getOwner(files', h).value = sender
        /\ hasAccess(files', h, sender).value

\* C4: after a successful addFile(h, k) by O, hasAccess(h, O) is true, and
\* every later addFile(h, k') by any caller fails with DuplicateFile and
\* leaves owner, pointer and access membership of h unchanged.
C4_RegisterOnce ==
  [](C4_DuplicateReverts) /\ [][C4_RegisteringStep]_vars

\* A second registration of a registered hash has just been rejected.
C4_Witness ==
  /\ lastCall = [op |-> "addFile", err |-> DuplicateFile]
  /\ Registered # {}

\* C5: from any reachable state, the owner O of h granting A # O and then
\* revoking A leaves hasAccess(h, A) false and hasAccess(h, O) true, and the
\* revoke changes hasAccess for no other principal and no other file.
C5_GrantThenRevoke ==
  \A h \in Registered : \A A \in Principals \ {files[h].owner} :
    LET O == files[h].owner
        g == grantAccess(files, O, h, A, NextBlock)
        r == revokeAccess(g.files, O, h, A, NextBlock + 1)
    IN  /\ g.err = "" /\ r.err = ""
        /\ hasAccess(g.files, h, A).value
        /\ ~hasAccess(r.files, h, A).value
        /\ hasAccess(r.files, h, O).value
        /\ \A h2 \in FileHashes, p \in Addresses :
             (h2 # h \/ p # A) =>
               hasAccess(r.files, h2, p) = hasAccess(g.files, h2, p)

\* The owner granted A and then revoked A, in consecutive transactions.
C5_Witness ==
  /\ lastCall = [op |-> "revokeAccess", err |-> ""]
  /\ Len(log) >= 3
  /\ log[Len(log) - 1].type = "AccessGranted"
  /\ log[Len(log)].type = "AccessRevoked"
  /\ log[Len(log)].fileHash = log[Len(log) - 1].fileHash
  /\ log[Len(log)].who = log[Len(log) - 1].who
  /\ ~hasAccess(files, log[Len(log)].fileHash, log[Len(log)].who).value

\* The FileAdded events of the log for h.
Registrations(lg, h) ==
  SelectSeq(lg, LAMBDA e : e.type = "FileAdded" /\ e.fileHash = h)

\* getOwner and getS3Key return what the one registering call of h set.
C6_RecordIsTheRegistered ==
  \A h \in Registered :
    /\ Len(Registrations(log, h)) = 1
    /\ getOwner(files, h) = [err |-> "", value |-> Registrations(log, h)[1].who]
    /\ getS3Key(files, h) = [err |-> "", value |-> Registrations(log, h)[1].s3Key]

\* No step unregisters a file or changes its owner or pointer.
C6_RecordUnchanged ==
  \A h \in Registered :
    /\ fileExists(files', h)
    /\ getOwner(files', h) = getOwner(files, h)
    /\ getS3Key(files', h) = getS3Key(files, h)

\* C6: once h is registered, fileExists(h) stays true and getOwner(h) and
\* getS3Key(h) keep returning the values set by the registering call, after
\* any sequence of addFile / grantAccess / revokeAccess by any callers.
C6_RegisteredIsTerminal ==
  [](C6_RecordIsTheRegistered) /\ [][C6_RecordUnchanged]_vars

\* A registered file after later transactions, the last a rejected re-registration.
C6_Witness ==
  /\ Len(log) >= 2
  /\ log[1].type = "FileAdded"
  /\ lastCall = [op |-> "addFile", err |-> DuplicateFile]
  /\ getOwner(files, log[1].fileHash).value = log[1].who

\* C7: the owner granting a principal that already has access, or revoking
\* a non-owner that has none, succeeds and leaves the file records and the
\* access membership as they were; a grant or revoke applied twice leaves
\* the same storage as applied once.
C7_GrantRevokeIdempotent ==
  \A h \in Registered, p \in Addresses :
    LET O  == files[h].owner
        g1 == grantAccess(files, O, h, p, NextBlock)
        g2 == grantAccess(g1.files, O, h, p, NextBlock + 1)
        r1 == revokeAccess(files, O, h, p, NextBlock)
        r2 == revokeAccess(r1.files, O, h, p, NextBlock + 1)
    IN  /\ hasAccess(files, h, p).value => g1.err = "" /\ g1.files = files
        /\ (p # O /\ ~hasAccess(files, h, p).value) => r1.err = "" /\ r1.files = files
        /\ p # ZeroAddress => g1.err = "" /\ g2.err = "" /\ g2.files = g1.files
        /\ p # O => r1.err = "" /\ r2.err = "" /\ r2.files = r1.files

\* The owner has granted the same principal twice in a row.
C7_Witness ==
  /\ lastCall = [op |-> "grantAccess", err |-> ""]
  /\ Len(log) >= 3
  /\ log[Len(log)].type = "AccessGranted"
  /\ log[Len(log) - 1].type = "AccessGranted"
  /\ log[Len(log)].fileHash = log[Len(log) - 1].fileHash
  /\ log[Len(log)].who = log[Len(log) - 1].who

(***************************************************************************)
(* Properties of retryWithBackoff (SpecRetry).                             *)
(***************************************************************************)
\* A rate-limit failure: HTTP 429 / "Too Many Requests" / code -32005.
IsRateLimited(outcome) ==
  /\ ~outcome.ok
  /\ \/ Includes(outcome.error.message, "Too Many Requests")
     \/ Includes(outcome.error.message, "429")
     \/ outcome.error.code = "-32005"

FailsTwiceThenSucceeds ==
  /\ Len(retry.outcomes) >= 3
  /\ IsRateLimited(retry.outcomes[1])
  /\ IsRateLimited(retry.outcomes[2])
  /\ retry.outcomes[3] = Ok

\* C8: when the wrapped call fails with a rate-limit error on attempts 1
\* and 2 and succeeds on attempt 3, retryWithBackoff returns the value of
\* the third invocation, has invoked the call exactly three times and has
\* rotated the endpoint pointer exactly twice.
C8_ThirdAttemptSucceeds ==
  FailsTwiceThenSucceeds =>
    /\ retry.maxRetries >= 3
    /\ retry.pc = "returned"
    /\ retry.result = Value(3)
    /\ Len(retry.outcomes) = 3
    /\ retry.rotations = 2
    /\ currentRpcIndex =
         (retry.startIndex + 2) % Len(SEPOLIA_RPC_ENDPOINTS(INFURA_URL))
    /\ provider = createProvider(SEPOLIA_RPC_ENDPOINTS(INFURA_URL), retry.startIndex + 2)

\* Two rate-limit failures, then success, with three attempts allowed.
C8_Witness ==
  /\ FailsTwiceThenSucceeds
  /\ retry.maxRetries = 3
  /\ retry.pc = "returned"


(***************************************************************************)
(* Properties of the access resolution engine (SpecResolve).               *)
(***************************************************************************)
\* The settled call did not serve an entry older than itself: it missed the
\* cache.
PrevMissed == prev.entryTimestamp = -1 \/ prev.entryTimestamp >= prev.startedAt

\* C9: when getAccessibleFileHashes(A) has returned a set and is called
\* again for the same principal less than CACHE_TTL later, the second call
\* issues no ledger call (no tip-height read, no event query, no hasAccess)
\* and returns the set the first call returned.
C9_SecondCallWithinTtlIssuesNoLedgerCall ==
  (/\ build = "cached"
   /\ resolve.pc = "returned"
   /\ prev.pc = "returned"
   /\ PrevMissed
   /\ toLowerCase(prev.address) = toLowerCase(resolve.address)
   /\ resolve.startedAt - prev.startedAt < CACHE_TTL)
  => /\ resolve.ledgerCalls = 0
     /\ resolve.result = prev.result

\* C10: with 0xa1 granted h1, h2, h3 and h2 then revoked, a resolve for 0xa1
\* that re-verifies its candidates returns no hash for which hasAccess is
\* false, so nothing outside {h1, h3}.
C10_StrictResolveReturnsNoRevokedHash ==
  (/\ build = "verifying"
   /\ files = Ledger(GrantedThenRevoked).files
   /\ toLowerCase(resolve.address) = "0xa1"
   /\ resolve.pc = "returned")
  => /\ \A h \in resolve.result : hasAccess(files, h, toLowerCase(resolve.address)).value
     /\ resolve.result \subseteq {"h1", "h3"}


(***************************************************************************)
(* Properties of the access gate (SpecDownload).                           *)
(***************************************************************************)
Outcomes(req) == {req.checks[i] : i \in DOMAIN req.checks}

\* The requester is the owner by the 'files' document, or a hasFileAccess
\* call for one of its wallet addresses answered true.
AllowEstablished(req) ==
  \/ req.user # Null /\ req.fileOwner = req.user
  \/ "true" \in Outcomes(req)

\* The access check did not run to a positive or negative answer: a
\* Firestore lookup threw, or a ledger call failed and none answered true.
CheckNotCompleted(req) ==
  \/ req.lookupThrew
  \/ "error" \in Outcomes(req) /\ "true" \notin Outcomes(req)

\* C11: when the access check of a download cannot be completed (a ledger
\* hasAccess call fails, or the metadata lookup throws), downloadFile answers
\* without a pre-signed URL and not with 200.
C11_GateFailsClosed ==
  (download.pc = "responded" /\ CheckNotCompleted(download))
  => download.downloadUrl = "" /\ download.status # 200

\* C12: downloadFile hands out the pre-signed URL only when Allow was
\* established for the requester: the owner of record, or a positive access
\* result.
C12_UrlOnlyAfterAllow ==
  download.downloadUrl # "" => AllowEstablished(download)

\* What the ledger and the metadata say about the requester: the owner of
\* record, or holder of a wallet address with access to the file.
Entitled(req) ==
  /\ req.user # Null
  /\ req.key \in DOMAIN FirestoreFiles
  /\ \/ FirestoreFiles[req.key].uid = req.user
     \/ /\ req.user \in DOMAIN FirestoreUsers
        /\ \E i \in DOMAIN FirestoreUsers[req.user].walletAddresses :
             LET a == hasAccess(files, FirestoreFiles[req.key].hash,
                                FirestoreUsers[req.user].walletAddresses[i])
             IN  a.err = "" /\ a.value

\* The gate let the request through to getFileFromS3.
Allowed(req) == req.allow # "none"

\* C14: the gate allows a request if and only if the requester is the owner
\* of record or has access to the file; Deny in every other case (a check
\* that failed may deny an entitled requester).
C14_AllowIffOwnerOrAccess ==
  (download.pc \in {"getFileFromS3", "responded"} /\ download.key # "")
  => /\ Allowed(download) => Entitled(download)
     /\ (Entitled(download) /\ ~CheckNotCompleted(download)) => Allowed(download)


\* The call reached the ledger but got no answer it could use: the tip
\* height read failed, or no chunk query succeeded.
Unreachable(call) == call.ledgerCalls > 0 /\ ~call.scanned

\* C13: when no RPC endpoint can be reached (the tip-height read fails, or
\* every chunk query fails on every attempt), getAccessibleFileHashes
\* throws; it does not return a set.
C13_UnreachableLedgerIsAnError ==
  (resolve.pc \in {"returned", "threw"} /\ Unreachable(resolve))
  => resolve.pc = "threw"


(***************************************************************************)
(* Properties of the cipher and of the upload (SpecCipher).                *)
(***************************************************************************)
\* uploadFile has encrypted its file.
Encrypted(req) == req.uniqueKey # ""

\* C15: decryptBuffer applied to the ciphertext, key, iv and authTag that
\* encryptBuffer produced for a plaintext under a 256-bit key returns that
\* plaintext, and downloadAndDecrypt given them sends it.
C15_DecryptInvertsEncrypt ==
  /\ Encrypted(upload) =>
       decryptBuffer(upload.ciphertext, upload.aesKey, upload.iv, upload.authTag)
         = [err |-> "", decrypted |-> upload.buffer]
  /\ (/\ decrypt.pc = "responded"
      /\ decrypt.status = 200
      /\ <<decrypt.encryptedBuffer, decrypt.aesKey, decrypt.iv, decrypt.authTag>>
           = <<upload.ciphertext, upload.aesKey, upload.iv, upload.authTag>>)
     => decrypt.sent /\ decrypt.body = upload.buffer

C15_Witness ==
  /\ decrypt.pc = "responded"
  /\ decrypt.sent
  /\ decrypt.authTag = upload.authTag
  /\ decrypt.body = upload.buffer
  /\ Len(upload.buffer) = 2
  /\ upload.ciphertext # upload.buffer

\* C16: when the tag, the key, the nonce or the ciphertext produced by
\* encryptBuffer is altered, decryptBuffer raises an error and returns no
\* plaintext, and downloadAndDecrypt sends no file bytes.
C16_AlteredInputIsRejected ==
  Encrypted(upload) =>
    LET genuine == <<upload.ciphertext, upload.aesKey, upload.iv, upload.authTag>>
    IN  /\ \A c \in Buffers, k \in generateKey \cup {ShortKey},
              iv \in randomBytes(IV_LENGTH), t \in AuthTagInputs(upload.authTag) :
              <<c, k, iv, t>> # genuine
                => decryptBuffer(c, k, iv, t) = [err |-> "Decryption failed",
                                                 decrypted |-> <<>>]
        /\ (/\ decrypt.pc = "responded"
            /\ <<decrypt.encryptedBuffer, decrypt.aesKey, decrypt.iv, decrypt.authTag>>
                 # genuine)
           => ~decrypt.sent

\* The hashes a step registers on the ledger.
NewlyRegistered == {h \in DOMAIN files : files'[h].exists /\ ~files[h].exists}

\* The ciphertext encryptBuffer produces for the file of the running upload.
UploadCiphertext == encryptBuffer(upload.buffer, upload.aesKey, upload.iv).ciphertext

\* The object uploadFile has put under its key is that ciphertext.
StoredIsCiphertext ==
  bucket[upload.uniqueKey] = [exists |-> TRUE, body |-> UploadCiphertext]

IsRangeTooLarge(outcome) ==
  /\ ~outcome.ok
  /\ \/ Includes(outcome.error.message, "exceed maximum block range")
     \/ Includes(outcome.error.message, "limited to")

IsTimeout(outcome) ==
  /\ ~outcome.ok
  /\ \/ Includes(outcome.error.message, "timeout")
     \/ outcome.error.code = "TIMEOUT"

IsMalformedResponse(outcome) ==
  /\ ~outcome.ok
  /\ outcome.error.code = "BAD_DATA"

IsTransient(outcome) ==
  \/ IsRateLimited(outcome)
  \/ IsRangeTooLarge(outcome)
  \/ IsTimeout(outcome)
  \/ IsMalformedResponse(outcome)

IsPermanent(outcome) == ~outcome.ok /\ ~IsTransient(outcome)

FailedTransientlyThroughout ==
  /\ retry.pc \in {"returned", "threw"}
  /\ \A i \in 1..Len(retry.outcomes) : IsTransient(retry.outcomes[i])

\* C19: when the wrapped call fails with a transient error on every
\* attempt, retryWithBackoff has invoked it exactly maxRetries times, has
\* rotated exactly maxRetries - 1 times and throws the error of the last
\* attempt; it returns neither undefined nor a value.
C19_TransientThroughoutExhaustsAttempts ==
  FailedTransientlyThroughout =>
    /\ Len(retry.outcomes) = retry.maxRetries
    /\ retry.rotations = retry.maxRetries - 1
    /\ retry.pc = "threw"
    /\ retry.result = Thrown(retry.outcomes[retry.maxRetries].error)


(***************************************************************************)
(* Properties of addFile with an empty pointer (Spec).                     *)
(***************************************************************************)
InvalidPointer == "S3 key cannot be empty"

\* addFile(h, "") on an unregistered h, by any caller, in the current state.
C20_EmptyPointerReverts ==
  \A h \in FileHashes \ Registered : \A sender \in Principals :
    LET r == addFile(files, sender, h, "", NextBlock)
    IN  /\ r.err = InvalidPointer
        /\ r.files = files
        /\ ~fileExists(r.files, h)
        /\ ~hasAccess(r.files, h, sender).value
        /\ r.events = <<>>

\* The transaction that ended with InvalidPointer wrote nothing and emitted
\* nothing.
C20_RejectedStep ==
  lastCall' = [op |-> "addFile", err |-> InvalidPointer] =>
    /\ files' = files
    /\ log' = log
    /\ tip' = tip

\* No record and no FileAdded event carries an empty pointer.
C20_NoEmptyPointerRecorded ==
  /\ \A h \in Registered : files[h].s3Key # ""
  /\ \A i \in 1..Len(log) : log[i].type = "FileAdded" => log[i].s3Key # ""

\* C20: addFile(h, "") on an unregistered h fails with "S3 key cannot be
\* empty", creates no record (fileExists(h) and hasAccess(h, caller) stay
\* false) and emits no event.
C20_EmptyPointerIsRejected ==
  /\ [](C20_EmptyPointerReverts /\ C20_NoEmptyPointerRecorded)
  /\ [][C20_RejectedStep]_vars

\* An addFile with an empty pointer has just been rejected while a hash it
\* could have named is still unregistered.
C20_Witness ==
  /\ lastCall = [op |-> "addFile", err |-> InvalidPointer]
  /\ TxFileHashes \ Registered # {}


(***************************************************************************)
(* Properties of the contract's failures, views and event log (Spec).      *)
(***************************************************************************)
NotFound == "File not found"
InvalidPrincipal == "Cannot grant access to zero address"

\* grantAccess in the current state, for every caller, hash and grantee:
\* the three failing cases, each leaving storage as it is and emitting
\* nothing.
C21_GrantReverts ==
  /\ \A h \in FileHashes \ Registered : \A sender \in Principals, p \in Addresses :
       grantAccess(files, sender, h, p, NextBlock) = Revert(files, NotFound)
  /\ \A h \in Registered :
       /\ \A sender \in Principals \ {files[h].owner}, p \in Addresses :
            grantAccess(files, sender, h, p, NextBlock) = Revert(files, NotOwnerGrant)
       /\ grantAccess(files, files[h].owner, h, ZeroAddress, NextBlock)
            = Revert(files, InvalidPrincipal)

\* A grantAccess transaction that failed changed no membership and
\* appended no event; the zero address is a member of no access list.
C21_RejectedGrantStep ==
  /\ (lastCall'.op = "grantAccess" /\ lastCall'.err # "") =>
       /\ lastCall'.err \in {NotFound, NotOwnerGrant, InvalidPrincipal}
       /\ files' = files
       /\ log' = log
  /\ \A h \in FileHashes : ZeroAddress \notin files'[h].access

\* C21: grantAccess(h, p) fails with NotFound when h is unregistered, with
\* NotOwner when h is registered and the caller is not its owner, and with
\* InvalidPrincipal when the owner names the zero address; in each failing
\* case no access membership changes and no AccessGranted event is emitted.
C21_GrantFailures ==
  [](C21_GrantReverts) /\ [][C21_RejectedGrantStep]_vars

\* The owner of a registered file has just tried to grant the zero address.
C21_Witness ==
  /\ lastCall = [op |-> "grantAccess", err |-> InvalidPrincipal]
  /\ Registered # {}
  /\ FileHashes \ Registered # {}

\* C22: getS3Key(h) and getOwner(h) fail with "File not found" for every
\* unregistered h, and for every registered h return the pointer and the
\* caller of the addFile call that registered it.
C22_ViewsOfRecord ==
  /\ \A h \in FileHashes \ Registered :
       /\ getS3Key(files, h).err = NotFound
       /\ getOwner(files, h).err = NotFound
  /\ \A h \in Registered :
       /\ Len(Registrations(log, h)) = 1
       /\ getS3Key(files, h) = [err |-> "", value |-> Registrations(log, h)[1].s3Key]
       /\ getOwner(files, h) = [err |-> "", value |-> Registrations(log, h)[1].who]

\* Two files registered by different callers under different pointers, and
\* a hash that is still unregistered.
C22_Witness ==
  /\ Cardinality(Registered) = 2
  /\ \E h1 \in Registered, h2 \in Registered :
       /\ getOwner(files, h1).value # getOwner(files, h2).value
       /\ getS3Key(files, h1).value # getS3Key(files, h2).value
  /\ FileHashes \ Registered # {}

\* The event a successful transaction appended is the one of the call that
\* produced the new storage.
EventOfCall(op, ev) ==
  CASE op = "addFile" ->
         /\ ev.type = "FileAdded"
         /\ addFile(files, ev.who, ev.fileHash, ev.s3Key, NextBlock)
              = [err |-> "", files |-> files', events |-> <<ev>>]
    [] op = "grantAccess" ->
         /\ ev.type = "AccessGranted"
         /\ \E sender \in Principals :
              grantAccess(files, sender, ev.fileHash, ev.who, NextBlock)
                = [err |-> "", files |-> files', events |-> <<ev>>]
    [] op = "revokeAccess" ->
         /\ ev.type = "AccessRevoked"
         /\ \E sender \in Principals :
              revokeAccess(files, sender, ev.fileHash, ev.who, NextBlock)
                = [err |-> "", files |-> files', events |-> <<ev>>]
    [] OTHER -> FALSE

\* One transaction of the contract: the log keeps its events, a failed
\* call appends nothing, a successful call appends its one event.
C23_LogStep ==
  /\ Len(log') >= Len(log)
  /\ SubSeq(log', 1, Len(log)) = log
  /\ lastCall'.err # "" => log' = log
  /\ lastCall'.err = "" =>
       /\ Len(log') = Len(log) + 1
       /\ EventOfCall(lastCall'.op, log'[Len(log')])

\* C23: the event log grows by exactly one event per successful
\* state-changing call and by none per failed call: FileAdded(h, O, k),
\* AccessGranted(h, p) or AccessRevoked(h, p) of the call; events already in
\* the log are never altered or removed.
C23_OneEventPerSuccessfulCall ==
  [][C23_LogStep]_vars

\* A registration, a grant and a revocation are in the log, and the call
\* after them failed.
C23_Witness ==
  /\ Len(log) = 3
  /\ log[1].type = "FileAdded"
  /\ log[2].type = "AccessGranted"
  /\ log[3].type = "AccessRevoked"
  /\ lastCall.err # ""


(***************************************************************************)
(* Properties of the endpoint rotation (SpecRetry).                        *)
(***************************************************************************)
Endpoints == SEPOLIA_RPC_ENDPOINTS(INFURA_URL)

\* The pointer after n calls of rotateRpcEndpoint.
RECURSIVE Rotated(_, _, _)
Rotated(endpoints, index, n) ==
  IF n = 0 THEN index
  ELSE Rotated(endpoints, rotateRpcEndpoint(endpoints, index).currentRpcIndex, n - 1)

\* The pointer names a candidate endpoint, provider, signer and contract
\* are bound to it, and as many rotations as there are endpoints lead back
\* to the endpoint they started from.
C24_PointerNamesTheClient ==
  /\ currentRpcIndex \in 0..(Len(Endpoints) - 1)
  /\ provider = Endpoints[currentRpcIndex + 1]
  /\ signer = provider
  /\ contract = signer
  /\ Rotated(Endpoints, currentRpcIndex, Len(Endpoints)) = currentRpcIndex
  /\ retry.rotations = Len(Endpoints) => currentRpcIndex = retry.startIndex

\* A step that moves the pointer moves it by one modulo the number of
\* endpoints, and the clients change with the pointer only.
C24_RotationStep ==
  /\ currentRpcIndex' # currentRpcIndex =>
       currentRpcIndex' = (currentRpcIndex + 1) % Len(Endpoints)
  /\ currentRpcIndex' = currentRpcIndex =>
       <<provider, signer, contract>>' = <<provider, signer, contract>>

\* C24: rotateRpcEndpoint advances the pointer by one modulo the number of
\* endpoints, so 0 <= pointer < number of endpoints always holds and N
\* rotations over N endpoints return to the starting endpoint; after each
\* rotation provider, signer and contract are bound to the endpoint at the
\* new pointer.
C24_RotationIsModular ==
  [](C24_PointerNamesTheClient) /\ [][C24_RotationStep]_vars

\* One call has rotated through all four endpoints of a configuration
\* without a primary endpoint and is back where it started, past the wrap.
C24_Witness ==
  /\ Len(Endpoints) = 4
  /\ retry.rotations = 4
  /\ retry.startIndex = 2
  /\ currentRpcIndex = 2

\* C25: after a transient failure caused a rotation, the retried call is
\* issued against the newly selected endpoint: invocation k + 1 of the
\* wrapped call uses the contract bound to the endpoint the pointer names
\* after the k-th rotation, not the one that just failed.
C25_RetryUsesTheRotatedClient ==
  \A k \in 1..(Len(retry.clients) - 1) :
    /\ retry.clients[k + 1] = createProvider(Endpoints, retry.startIndex + k)
    /\ retry.clients[k + 1] # retry.clients[k]

\* The same for the per-chunk retry loop of getAccessibleFileHashes: a
\* query issued after a rotation goes to the contract the pointer names.
C25_ChunkRetryUsesTheRotatedClient ==
  [][(resolve.pc = "queryFilter" /\ resolve.retryCount > 0
        /\ resolve'.ledgerCalls > resolve.ledgerCalls)
       => resolve'.client = contract]_vars


(***************************************************************************)
(* Properties of the error classification of retryWithBackoff (SpecRetry). *)
(***************************************************************************)
\* Invocation i failed and was followed by a backoff wait (and by a
\* rotation and the next invocation once the wait is over).
Retried(i) ==
  /\ Len(retry.delays) >= i
  /\ retry.pc \in {"sleeping", "calling"} \/ i < Len(retry.outcomes)

\* Invocation i failed and its error was thrown to the caller.
Propagated(i) ==
  /\ i = Len(retry.outcomes)
  /\ retry.pc = "threw"
  /\ retry.result = Thrown(retry.outcomes[i].error)

\* C26: a failure of one of the four transient kinds - rate-limited,
\* range-too-large, timeout, malformed response - before the last attempt
\* is retried (backoff, rotate, retry), and every other failure is
\* propagated; in particular a timeout before the last attempt is retried.
C26_TransientKindsAreRetried ==
  \A i \in 1..Len(retry.outcomes) :
    /\ (IsTransient(retry.outcomes[i]) /\ i < retry.maxRetries) => Retried(i)
    /\ IsPermanent(retry.outcomes[i]) => Propagated(i)


(***************************************************************************)
(* Properties of the engine's ledger calls and chunk scan (SpecResolve).   *)
(***************************************************************************)
\* The call has ended after a single ledger call: its tip-height read
\* failed once and that failure decided the outcome.
EndedOnFirstFailure(call) ==
  /\ call.pc \in {"returned", "threw"}
  /\ call.entryTimestamp = -1
  /\ call.ledgerCalls = 1

\* C27: every ledger call of the engine goes through the retry layer, so a
\* single transient failure of one of them is retried on another endpoint
\* and not surfaced to the caller: no resolution ends on the first failure
\* of its tip-height read.
C27_SingleFailureIsRetried ==
  ~EndedOnFirstFailure(resolve)

\* What the two queries of the chunk starting at fromBlock return.
ChunkHashes(call, fromBlock) ==
  LET toBlock == Min(fromBlock + CHUNK_SIZE - 1, call.latestBlock)
  IN  queryFilter(log, "AccessGranted", call.address, fromBlock, toBlock)
        \cup queryFilter(log, "FileAdded", call.address, fromBlock, toBlock)

\* The first blocks of the chunks of the call's scan window.
ChunkStarts(call) ==
  LET START_BLOCK == Max(0, call.latestBlock - SCAN_WINDOW)
  IN  {b \in {START_BLOCK + i * CHUNK_SIZE : i \in 0..(SCAN_WINDOW \div CHUNK_SIZE)} :
         b <= call.latestBlock}

\* A call of the version with per-chunk retries that missed the cache, read
\* the tip height and has returned.
ColdScan(call) ==
  /\ call.version = "cached"
  /\ call.pc = "returned"
  /\ call.ledgerCalls > 1

\* C28: a chunk whose queries fail on every permitted attempt is skipped
\* and the resolution continues to the last chunk: the returned set is the
\* union of the hashes found in the chunks that succeeded, and the call
\* does not end in an error.
C28_FailedChunkIsSkipped ==
  /\ resolve.version = "cached" => resolve.pc # "threw"
  /\ ColdScan(resolve) =>
       /\ resolve.fromBlock + CHUNK_SIZE > resolve.latestBlock
       /\ resolve.succeeded \subseteq ChunkStarts(resolve)
       /\ resolve.result = UNION {ChunkHashes(resolve, b) : b \in resolve.succeeded}

\* The first chunk was given up, the second one succeeded and its hash is
\* returned.
C28_Witness ==
  /\ ColdScan(resolve)
  /\ Cardinality(ChunkStarts(resolve)) = 2
  /\ resolve.succeeded = {resolve.latestBlock}
  /\ resolve.retryCount = 0
  /\ resolve.result = {"h2"}

\* The first chunk succeeded, the second one was given up, and the hash of
\* the first is returned.
C28_WitnessLaterChunkSkipped ==
  /\ ColdScan(resolve)
  /\ Cardinality(ChunkStarts(resolve)) = 2
  /\ resolve.succeeded = {resolve.latestBlock - SCAN_WINDOW}
  /\ resolve.result = {"h2"}

\* The chunks of the loop
\*   for (fromBlock = START_BLOCK; fromBlock <= latestBlock; fromBlock += CHUNK_SIZE)
\* with toBlock = Math.min(fromBlock + CHUNK_SIZE - 1, latestBlock).
RECURSIVE ChunkLoop(_, _)
ChunkLoop(fromBlock, latestBlock) ==
  IF fromBlock <= latestBlock
    THEN <<[fromBlock |-> fromBlock,
            toBlock |-> Min(fromBlock + CHUNK_SIZE - 1, latestBlock)]>>
           \o ChunkLoop(fromBlock + CHUNK_SIZE, latestBlock)
    ELSE <<>>

\* Tip heights around the window and chunk sizes.
TipHeights ==
  {0, 1, CHUNK_SIZE - 1, CHUNK_SIZE, CHUNK_SIZE + 1, 2 * CHUNK_SIZE, 2 * CHUNK_SIZE + 1}

\* The chunks partition [max(0, T - SCAN_WINDOW), T]: the first starts at
\* the window start, each next one starts right after the one before, the
\* last ends at T, and none holds more than CHUNK_SIZE blocks.
Partitions(chunks, T) ==
  /\ Len(chunks) >= 1
  /\ chunks[1].fromBlock = Max(0, T - SCAN_WINDOW)
  /\ chunks[Len(chunks)].toBlock = T
  /\ \A i \in 1..Len(chunks) :
       /\ chunks[i].fromBlock <= chunks[i].toBlock
       /\ chunks[i].toBlock - chunks[i].fromBlock + 1 <= CHUNK_SIZE
       /\ i > 1 => chunks[i].fromBlock = chunks[i - 1].toBlock + 1

\* The chunk a running scan is at.
ToBlock(call) == Min(call.fromBlock + CHUNK_SIZE - 1, call.latestBlock)

\* The scan of the running call goes through those chunks: it starts at the
\* window start, moves on to the block after the chunk it leaves, and
\* returns from the chunk that ends at the tip height.
C29_ScanStep ==
  resolve'.version = "cached" =>
    /\ (resolve.pc = "getBlockNumber" /\ resolve'.pc = "queryFilter") =>
         /\ resolve'.latestBlock = tip
         /\ resolve'.fromBlock = Max(0, tip - SCAN_WINDOW)
    /\ (resolve.pc \in {"queryFilter", "retryWait"}
          /\ resolve'.fromBlock # resolve.fromBlock) =>
         /\ resolve'.fromBlock = ToBlock(resolve) + 1
         /\ resolve'.fromBlock <= resolve.latestBlock
         /\ resolve'.latestBlock = resolve.latestBlock
    /\ (resolve.pc \in {"queryFilter", "retryWait"} /\ resolve'.pc = "returned") =>
         ToBlock(resolve) = resolve.latestBlock

\* C29: for every tip height T >= 0 that the tip-height read of a
\* cache-cold resolve can return, the chunks it scans partition the window
\* [max(0, T - 50000), T] exactly: contiguous, non-overlapping, from the
\* window start to T, none of more than CHUNK_SIZE blocks.
C29_ChunksPartitionTheWindow ==
  /\ [](resolve.pc = "getBlockNumber" =>
          \A T \in TipHeights \cup {tip} :
            Partitions(ChunkLoop(Max(0, T - SCAN_WINDOW), T), T))
  /\ [](resolve.pc \in {"queryFilter", "retryWait"} =>
          \E i \in 1..Len(ChunkLoop(Max(0, tip - SCAN_WINDOW), tip)) :
            ChunkLoop(Max(0, tip - SCAN_WINDOW), tip)[i]
              = [fromBlock |-> resolve.fromBlock, toBlock |-> ToBlock(resolve)])
  /\ [][C29_ScanStep]_vars

\* A scan of a window of two chunks, both queried, has returned.
C29_Witness ==
  /\ ColdScan(resolve)
  /\ resolve.latestBlock = 60000
  /\ resolve.succeeded = {10000, 60000}
  /\ resolve.fromBlock = 60000

\* The first block of the call's scan window.
WindowStart(call) ==
  Max(0, call.latestBlock - (IF call.version = "cached" THEN SCAN_WINDOW
                                                       ELSE VERIFYING_SCAN_WINDOW))

\* The hashes of the AccessGranted(h, A) and FileAdded(h, owner = A) events
\* of the log for the call's address A, in the given block range.
EventsFor(call, fromBlock, toBlock) ==
  {toLowerCase(log[i].fileHash) :
     i \in {j \in 1..Len(log) :
              /\ log[j].type \in {"AccessGranted", "FileAdded"}
              /\ log[j].who = toLowerCase(call.address)
              /\ fromBlock <= log[j].block
              /\ log[j].block <= toBlock}}

\* A call that missed the cache and has returned.
ColdReturn(call) == call.pc = "returned" /\ call.ledgerCalls > 0

\* C30: every hash returned by a cache-cold resolve(A) is the hash of an
\* AccessGranted(h, A) or FileAdded(h, owner = A) event recorded inside the
\* scan window; a file whose only such event lies before the window start
\* is not returned.
C30_ReturnedHashesHaveAnEventInTheWindow ==
  ColdReturn(resolve) =>
    /\ resolve.result \subseteq
         EventsFor(resolve, WindowStart(resolve), resolve.latestBlock)
    /\ resolve.result \cap
         (EventsFor(resolve, 0, WindowStart(resolve) - 1)
            \ EventsFor(resolve, WindowStart(resolve), resolve.latestBlock)) = {}

\* 0xa1 owns h1, registered before the window start: the call returns h2,
\* whose grant is inside the window, and not h1.
C30_Witness ==
  /\ ColdReturn(resolve)
  /\ resolve.version = "cached"
  /\ toLowerCase(resolve.address) = "0xa1"
  /\ getOwner(files, "h1").value = "0xa1"
  /\ EventsFor(resolve, 0, WindowStart(resolve) - 1) = {"h1"}
  /\ resolve.result = {"h2"}


\* ---------------------------------------------------------------------------
\* The access list as the fold of the event log
\* ---------------------------------------------------------------------------

\* The members of the access list of h obtained by replaying the events of h
\* in log order: FileAdded adds the owner, AccessGranted adds the grantee,
\* AccessRevoked removes the revokee.
RECURSIVE FoldOfLog(_, _)
FoldOfLog(lg, h) ==
  IF lg = <<>> THEN {}
  ELSE LET before == FoldOfLog(SubSeq(lg, 1, Len(lg) - 1), h)
           ev == lg[Len(lg)]
       IN  IF ev.fileHash # h THEN before
           ELSE IF ev.type = "AccessRevoked" THEN before \ {ev.who}
           ELSE before \cup {ev.who}

\* C40: in every reachable state hasAccess(h, p) is true exactly when p is a
\* member of the set obtained by replaying the ordered FileAdded /
\* AccessGranted / AccessRevoked events of h from the empty set.
C40_AccessIsTheFoldOfTheLog ==
  \A h \in FileHashes, p \in Addresses :
    hasAccess(files, h, p).value = (p \in FoldOfLog(log, h))

\* A log of a registration, a grant and the revocation of that grant, all of
\* one hash: the fold holds the owner only.
C40_Witness ==
  /\ Len(log) = 3
  /\ log[1].type = "FileAdded"
  /\ log[2].type = "AccessGranted" /\ log[2].fileHash = log[1].fileHash
  /\ log[3].type = "AccessRevoked" /\ log[3].fileHash = log[1].fileHash
  /\ log[3].who = log[2].who
  /\ FoldOfLog(log, log[1].fileHash) = {log[1].who}
  /\ hasAccess(files, log[1].fileHash, log[1].who).value
  /\ ~hasAccess(files, log[1].fileHash, log[2].who).value


(***************************************************************************)
(* Properties of the backoff waits of retryWithBackoff (SpecRetry).        *)
(***************************************************************************)
\* The i-th wait lasted baseDelay, 2 * baseDelay, 4 * baseDelay, ...
Doubling(delays, baseDelay) ==
  \A i \in 1..Len(delays) :
    delays[i] = IF i = 1 THEN baseDelay ELSE 2 * delays[i - 1]

\* C35: a transient failure at attempt k < maxRetries is followed by a wait
\* of baseDelay * 2^(k-1) milliseconds, the wait comes before the rotation
\* (during the k-th wait k - 1 rotations have been made), and no wait
\* follows a failure of the last attempt or a permanent failure.
C35_TransientFailureWaitsDoubling ==
  /\ \A k \in 1..Len(retry.outcomes) :
       (IsTransient(retry.outcomes[k]) /\ k < retry.maxRetries) =>
         /\ Len(retry.delays) >= k
         /\ retry.delays[k] = retry.baseDelay * 2 ^ (k - 1)
  /\ Doubling(retry.delays, retry.baseDelay)
  /\ retry.rotations =
       IF retry.pc = "sleeping" THEN Len(retry.delays) - 1 ELSE Len(retry.delays)
  /\ \A k \in 1..Len(retry.outcomes) :
       (~retry.outcomes[k].ok /\ (k = retry.maxRetries \/ IsPermanent(retry.outcomes[k]))) =>
         Len(retry.delays) = k - 1


(***************************************************************************)
(* Properties of the cache writes of getAccessibleFileHashes (SpecResolve). *)
(***************************************************************************)
\* The step writes the cache entry of key k.
WritesEntry(k) ==
  /\ accessibleFilesCache'[k].present
  /\ accessibleFilesCache'[k] # accessibleFilesCache[k]

\* A step that writes a cache entry ends a scan in which every chunk of the
\* window was queried successfully, and stores the hashes of all of them.
C37_WriteStep ==
  \A k \in CacheKeys :
    WritesEntry(k) =>
      /\ resolve'.succeeded = ChunkStarts(resolve')
      /\ accessibleFilesCache'[k].hashes =
           UNION {ChunkHashes(resolve', b) : b \in ChunkStarts(resolve')}

\* C37: a cache entry is written only when every chunk of the scan was
\* queried successfully, so no entry holds a set that misses the events of
\* a skipped chunk (or the empty set of a scan whose chunks all failed).
C37_CacheEntryIsACompleteScan == [][C37_WriteStep]_vars


\* The step ends a call before it produced a result: the contract or the
\* provider is not initialized, or the tip-height read fails or times out.
FailsBeforeResult ==
  /\ resolve.pc \in {"idle", "getBlockNumber"}
  /\ resolve'.pc \in {"returned", "threw"}
  /\ resolve'.entryTimestamp = -1

\* C39: a call of getAccessibleFileHashes that fails before producing a
\* result (client not initialized, tip-height read failed or timed out)
\* leaves every cache entry as it was.
C39_FailedCallLeavesTheCache ==
  [][FailsBeforeResult => accessibleFilesCache' = accessibleFilesCache]_vars

\* The tip-height read of a call has failed while the cache holds the
\* expired entry of an earlier call for the same address.
C39_Witness ==
  /\ resolve.pc = "returned"
  /\ resolve.ledgerCalls = 1
  /\ ~resolve.scanned
  /\ resolve.result = {}
  /\ accessibleFilesCache[toLowerCase(resolve.address)].present
  /\ accessibleFilesCache[toLowerCase(resolve.address)].hashes # {}
  /\ now - accessibleFilesCache[toLowerCase(resolve.address)].timestamp >= CACHE_TTL


(***************************************************************************)
(* The result of a scan as a fold of its events in any order (SpecResolve). *)
(***************************************************************************)
\* The AccessGranted(h, A) and FileAdded(h, A) events of the chunks the
\* call queried successfully, as the hashes they report, in log order.
ReportedHashes(call) ==
  LET reported ==
        SelectSeq(log, LAMBDA ev :
          /\ ev.type \in {"AccessGranted", "FileAdded"}
          /\ ev.who = toLowerCase(call.address)
          /\ \E b \in call.succeeded :
               /\ b <= ev.block
               /\ ev.block <= Min(b + CHUNK_SIZE - 1, call.latestBlock))
  IN  [i \in 1..Len(reported) |-> toLowerCase(reported[i].fileHash)]

\* A JavaScript Set as its elements in insertion order: add(x) appends x
\* unless the Set holds it already.
RECURSIVE AddEach(_, _)
AddEach(inserted, hashes) ==
  IF hashes = <<>> THEN inserted
  ELSE AddEach(IF \E i \in 1..Len(inserted) : inserted[i] = Head(hashes)
                 THEN inserted ELSE Append(inserted, Head(hashes)),
               Tail(hashes))

Elements(inserted) == {inserted[i] : i \in 1..Len(inserted)}

\* C31: the set a cache-cold call returns is the same for every order in
\* which the events of its chunks are processed: adding the reported hashes
\* in any permutation gives the returned set, and a hash reported by
\* several events is held once.
C31_ResultIsOrderIndependent ==
  ColdScan(resolve) =>
    LET hashes == ReportedHashes(resolve)
    IN  \A order \in Permutations(1..Len(hashes)) :
          LET inserted == AddEach(<<>>, [i \in 1..Len(hashes) |-> hashes[order[i]]])
          IN  /\ Elements(inserted) = resolve.result
              /\ Len(inserted) = Cardinality(resolve.result)

\* h2 was granted to 0xa1 twice and h1 registered by 0xa1: three events,
\* two hashes returned.
C31_Witness ==
  /\ ColdScan(resolve)
  /\ Len(ReportedHashes(resolve)) = 3
  /\ resolve.result = {"h1", "h2"}


(***************************************************************************)
(* Properties of the normalization of addresses and hashes (SpecResolve).  *)
(***************************************************************************)
\* The settled call and the current one were made for addresses that
\* differ in letter case only.
DifferInCaseOnly(a, b) == a # b /\ toLowerCase(a) = toLowerCase(b)

IsLowerCase(str) == toLowerCase(str) = str

\* C33: two calls whose addresses differ only in letter case use the same
\* cache entry: the second one, made less than CACHE_TTL after the first,
\* is a cache hit (no ledger call) that returns the set the first call
\* returned; and every file hash of a returned set is lowercase.
C33_CaseVariantsShareTheCacheEntry ==
  /\ (/\ build = "cached"
      /\ resolve.pc = "returned"
      /\ prev.pc = "returned"
      /\ PrevMissed
      /\ DifferInCaseOnly(prev.address, resolve.address)
      /\ resolve.startedAt - prev.startedAt < CACHE_TTL)
     => /\ resolve.ledgerCalls = 0
        /\ resolve.result = prev.result
  /\ resolve.pc = "returned" => \A h \in resolve.result : IsLowerCase(h)


(***************************************************************************)
(* Properties of the expiry of cache entries (SpecExpiry).                 *)
(***************************************************************************)
\* The current call was answered from the cache.
ServedFromCache(call) ==
  call.pc = "returned" /\ call.ledgerCalls = 0 /\ call.entryTimestamp >= 0

\* The settled call ran the scan that wrote the entry the current call was
\* answered from.
PrevWroteTheEntry ==
  /\ ServedFromCache(resolve)
  /\ prev.pc = "returned"
  /\ toLowerCase(prev.address) = toLowerCase(resolve.address)
  /\ prev.entryTimestamp = resolve.entryTimestamp
  /\ PrevMissed

\* A call that finds an entry of age CACHE_TTL or more reads the ledger
\* again, and an entry that is written carries the time of the write.
C34_ExpiryStep ==
  /\ (resolve.pc = "idle" /\ resolve'.pc # "idle") =>
       LET cached == accessibleFilesCache[toLowerCase(resolve'.address)]
       IN  (cached.present /\ now - cached.timestamp >= CACHE_TTL) =>
             resolve'.pc = "getBlockNumber"
  /\ \A k \in CacheKeys : WritesEntry(k) => accessibleFilesCache'[k].timestamp = now

\* C34: no call is answered from an entry of age CACHE_TTL or more; a call
\* made at that age scans the ledger again and on success replaces the
\* entry with one stamped with the current time; and so a set answered
\* from the cache comes from a scan that started at most CACHE_TTL before
\* the call.
C34_ServedSetIsAtMostTtlOld ==
  /\ [](ServedFromCache(resolve) =>
          resolve.startedAt - resolve.entryTimestamp < CACHE_TTL)
  /\ [][C34_ExpiryStep]_vars
  /\ [](PrevWroteTheEntry => resolve.startedAt - prev.startedAt <= CACHE_TTL)


(***************************************************************************)
(* Properties of the termination of a scan (SpecScan).                     *)
(***************************************************************************)
\* The step rotates the endpoint.
Rotates == currentRpcIndex' # currentRpcIndex

\* The step is a chunk attempt that failed: both queries were issued and
\* the chunk is not among those queried successfully.
ChunkAttemptFails ==
  /\ resolve.pc \in {"queryFilter", "retryQuery"}
  /\ resolve'.ledgerCalls = resolve.ledgerCalls + 2
  /\ resolve.fromBlock \notin resolve'.succeeded

\* The step leaves the chunk, for the next one or for the return.
LeavesChunk == resolve'.fromBlock # resolve.fromBlock \/ resolve'.pc = "returned"

\* The attempts of a chunk: at most MAX_RETRIES in the deployed definition,
\* where the counter of failed attempts starts at 0 for every chunk, and at
\* most two in the earlier one, where the retry is the last attempt.
C36_AttemptStep ==
  /\ (resolve.pc \in {"queryFilter", "retryWait"} /\ LeavesChunk) => resolve'.retryCount = 0
  /\ (resolve.pc = "getBlockNumber" /\ resolve'.pc = "queryFilter") => resolve'.retryCount = 0
  /\ (resolve.version = "cached" /\ ChunkAttemptFails) =>
       /\ resolve'.retryCount = resolve.retryCount + 1
       /\ resolve'.retryCount <= MAX_RETRIES
  /\ resolve.pc = "retryQuery" => LeavesChunk
  /\ (resolve.version = "earlier" /\ resolve.pc = "queryFilter" /\ ~LeavesChunk) =>
       resolve'.pc = "retryQuery"

\* C36 as stated: every failed chunk attempt, and no other step, rotates
\* the endpoint, in both definitions.
C36_RotationsEqualFailedAttempts == [][Rotates <=> ChunkAttemptFails]_vars

\* C36: a call that missed the cache terminates whatever the failures of
\* its RPC calls: each chunk is queried at most MAX_RETRIES times (twice in
\* the earlier definition), the attempt counter starts at 0 for every
\* chunk, and the endpoint is rotated once for every failed chunk attempt
\* of the deployed definition and once for every failed first attempt of
\* the earlier one, whose failed retry is not followed by a rotation.
C36_ScanTerminates ==
  /\ Scanning ~> resolve.pc \in {"returned", "threw"}
  /\ [](resolve.pc = "queryFilter" => resolve.retryCount < MAX_RETRIES)
  /\ [][C36_AttemptStep]_vars
  /\ [][Rotates <=> (ChunkAttemptFails /\ resolve.pc = "queryFilter")]_vars

\* A scan of two chunks has returned after every attempt of both chunks
\* failed: the tip-height read and two queries in each of the three
\* attempts of each chunk.
C36_Witness ==
  /\ ColdScan(resolve)
  /\ Cardinality(ChunkStarts(resolve)) = 2
  /\ resolve.succeeded = {}
  /\ resolve.ledgerCalls = 1 + 2 * 2 * MAX_RETRIES


(***************************************************************************)
(* Properties of addFileRecord (SpecRecord).                               *)
(***************************************************************************)
\* The transactions of the call that registered its file.
RegisteredByTheCall(r) == {i \in 1..Len(r.txs) : r.txs[i] = "mined"}

\* The step in which addFileRecord throws.
Throws == retry.pc # "threw" /\ retry'.pc = "threw"

\* C38: addFileRecord throws only when none of its attempts has registered
\* the file: a retry after a failed confirmation wait does not turn a
\* registration that was mined into a reported failure; and the call's
\* file is never registered twice.
C38_FailureMeansNotRegistered ==
  /\ [][Throws => RegisteredByTheCall(retry') = {}]_vars
  /\ [](Cardinality(RegisteredByTheCall(retry)) <= 1)
  /\ [](Len(Registrations(log, retry.fileHash)) <= 1)


(***************************************************************************)
(* Properties of the shared endpoint pointer (SpecRace).                   *)
(***************************************************************************)
\* The chunk attempts of a call that failed, each of which asked for a
\* rotation: its attempts are the pairs of queries after the tip-height
\* read, less the chunks queried successfully.
FailedAttempts(call) ==
  IF call.ledgerCalls = 0 THEN 0
  ELSE ((call.ledgerCalls - 1) \div 2) - Cardinality(call.succeeded)

\* The rotations asked for so far by the two calls and the transaction.
RotationsRequested ==
  FailedAttempts(resolve) + FailedAttempts(sibling) + Len(retry.delays)

\* The rotations made so far: those asked for, less the one the
\* transaction will make when its backoff wait is over.
RotationsMade ==
  RotationsRequested - (IF retry.pc = "sleeping" THEN 1 ELSE 0)

\* The step changes the pointer, the provider, the signer and the contract
\* together, or none of them.
RotationIsAtomic ==
  /\ (currentRpcIndex' # currentRpcIndex) <=> (provider' # provider)
  /\ (currentRpcIndex' # currentRpcIndex) <=> (signer' # signer)
  /\ (currentRpcIndex' # currentRpcIndex) <=> (contract' # contract)
  /\ (currentRpcIndex' # currentRpcIndex) =>
       currentRpcIndex' = (currentRpcIndex + 1) % Len(Endpoints)

\* C32: whatever the interleaving of the two concurrent calls and the
\* retried transaction, the pointer is an index of the endpoint list, the
\* provider, signer and contract are those of the endpoint it names in
\* every state and change with it in one step, and after K rotations the
\* pointer has advanced by K modulo the length of the list.
C32_RotationsAreAtomicAndCounted ==
  /\ [](currentRpcIndex \in 0..(Len(Endpoints) - 1))
  /\ [](/\ provider = createProvider(Endpoints, currentRpcIndex)
        /\ signer = provider
        /\ contract = provider)
  /\ [][RotationIsAtomic]_vars
  /\ [](currentRpcIndex = RotationsMade % Len(Endpoints))

\* Both calls and the transaction wait to retry after each of them has
\* rotated, and the pointer has wrapped around the list.
C32_Witness ==
  /\ resolve.pc = "retryWait"
  /\ sibling.pc = "retryWait"
  /\ retry.pc = "sleeping"
  /\ FailedAttempts(resolve) >= 2
  /\ FailedAttempts(sibling) >= 2
  /\ Len(retry.delays) >= 2
  /\ RotationsMade > Len(Endpoints)

====
